---------------------------- MODULE Spec2Model ----------------------------
(***************************************************************************)
(* A model of creditcardSpendTracker: the persistent store (dbManager),    *)
(* the reward reconciliation validator, the categorizer, the SBI and ICICI *)
(* line parsers and the dispatcher of billParser.parseFile.                *)
(*                                                                         *)
(* Conventions.  A Python value that may be None is an option: <<>> is     *)
(* None (SQL NULL), <<v>> is the value v.  Text is a sequence of one       *)
(* character strings, so that substring search, case folding and number    *)
(* parsing are computed and not assumed.  Money is an integer number of    *)
(* hundredths (326.00 is 32600).                                           *)
(***************************************************************************)
EXTENDS Integers, Sequences, FiniteSets, TLC

VARIABLES
    \* ---- dbManager: table transactions and the last insertTransactions call
    txTable,        \* rows of table transactions, in rowid order
    txArg,          \* argument of the last insertTransactions call
    txRet,          \* its return value
    txBefore,       \* txTable as it was before that call
    txRepeat,       \* that call had the same argument as the call before it
    \* ---- dbManager: table rewardPointsSummary and the last insertRewardSummary call
    rwTable,
    rwArg,
    rwRet,
    rwBefore,
    rwRepeat,       \* that call was a second parse of the previous argument
    \* ---- rewardValidator.validateRewardSummary
    rvSummary,      \* the summary dict handed to validateRewardSummary
    rvResult,       \* None before the call, then <<(isValid, message)>>
    \* ---- categorizer.categorizeTransactions
    catCategories,  \* config/categories.json: (merchant name, pair) in file order
    catRules,       \* config/categoryRules.json: (pattern, rule data) in file order
    catTxs,         \* the transactions handed in, then as returned
    catDone,        \* categorizeTransactions has returned
    \* ---- sbiParser.parse, one line of one page at a time
    sbiPc,                  \* "pages" while the pages are read, then "done"
    sbiPageNum,             \* pages taken from pdf.pages so far
    sbiInPage,              \* inside the line loop of a page with text
    sbiCount,               \* lines read so far
    sbiLine,                \* the line read last
    sbiEmittedBefore,       \* len(transactions) before that line
    sbiPrimaryCardHolder,
    sbiCardNumber,
    sbiStatementDate,
    sbiImportId,            \* importId, unbound before the first line
    sbiReward,              \* opening, earned, redeemed, closing, lapsed
    sbiInsideTransactions,
    sbiPageRewards,         \* what parseRewards finds in the page's lines so far
    sbiTransactions,
    sbiRewardSummaries,
    \* ---- iciciParser.parse, one line at a time
    iciciPc,                \* "pages" while the pages are read, then "done"
    iciciPageNum,           \* pages taken from pdf.pages so far
    iciciInPage,            \* inside the line loop of a page with text
    iciciCount,             \* lines read so far
    iciciLine,              \* the line read last
    iciciEmittedBefore,     \* len(transactions) before that line
    iciciCardBefore,        \* currentCardNumber before that line
    iciciCurrentCardNumber,
    iciciTransactions,
    \* ---- billParser.parseFile, on the tables txTable and rwTable
    pfPc,               \* the part of parseFile that runs next
    pfFilePath,
    pfBaseName,
    pfParserModule,     \* parser_module: None, or the bank whose module it is
    pfTransactions,
    pfRewardSummaries,
    pfWarnings,         \* None, or what validateAndLogRewardSummaries returned
    pfTxCount,
    pfRwCount,
    pfRwTableAtCall,    \* rewardPointsSummary as it was when parseFile was called
    pfOpened,           \* "notyet", then "opened" or "failed": the parser's open of the PDF
    pfFiles,            \* the files parseFile has written
    \* ---- validateAndLogRewardSummaries on logs/rewardValidationWarnings.csv
    logFile,            \* the rows of the file; <<>> when it is absent or empty
    logCalls,           \* calls made so far
    logArg,             \* the last call: its summaries,
    logOverwrite,       \*   its overwrite flag,
    logReturned,        \*   what it returned,
    logBefore,          \*   and the file as it was before
    \* ---- categorizeTransactions on logs/unparsedTransactions.csv
    ucLog,              \* the transaction rows of the file; <<>> when it is absent
    ucCalls,            \* calls made so far
    ucArg,              \* the last call: the transactions handed in,
    ucRet,              \*   and the list returned
    \* ---- hdfcParser.parse, page by page and line by line
    hdfcPc,             \* "pages", then "done"
    hdfcPageNum,
    hdfcInPage,         \* the current page has text
    hdfcCount,          \* lines read so far
    hdfcLine,           \* None, or the line read last
    hdfcState,          \* the parser's locals and the transactions so far
    hdfcBefore,         \* hdfcState before the line read last
    hdfcRewardSummaries,
    \* ---- auParser.parse: the pages are read, then their lines
    auPc,               \* "pages", then "done" or "raised"
    auPageNum,          \* pages taken from pdf.pages so far
    auInPage,           \* the page taken last had lines
    auCount,            \* lines read so far
    auLine,             \* the line read last
    auState,            \* the locals of the transaction loop
    auRewards,          \* the locals of parseAuRewards over the same lines
    auTransactions,     \* what parse returns
    auRewardSummaries

txVars == <<txTable, txArg, txRet, txBefore, txRepeat>>
rwVars == <<rwTable, rwArg, rwRet, rwBefore, rwRepeat>>
rvVars == <<rvSummary, rvResult>>
catVars == <<catCategories, catRules, catTxs, catDone>>
sbiVars == <<sbiPc, sbiPageNum, sbiInPage, sbiCount, sbiLine, sbiEmittedBefore,
             sbiPrimaryCardHolder, sbiCardNumber, sbiStatementDate, sbiImportId,
             sbiReward, sbiInsideTransactions, sbiPageRewards, sbiTransactions,
             sbiRewardSummaries>>
iciciVars == <<iciciPc, iciciPageNum, iciciInPage, iciciCount, iciciLine,
               iciciEmittedBefore, iciciCardBefore, iciciCurrentCardNumber,
               iciciTransactions>>
logCallVars == <<logCalls, logArg, logOverwrite, logReturned, logBefore>>
logVars == <<logFile, logCallVars>>
ucCallVars == <<ucCalls, ucArg, ucRet>>
ucVars == <<ucLog, ucCallVars>>
hdfcVars == <<hdfcPc, hdfcPageNum, hdfcInPage, hdfcCount, hdfcLine, hdfcState,
              hdfcBefore, hdfcRewardSummaries>>
auVars == <<auPc, auPageNum, auInPage, auCount, auLine, auState, auRewards,
            auTransactions, auRewardSummaries>>
pfVars == <<pfPc, pfFilePath, pfBaseName, pfParserModule, pfTransactions,
            pfRewardSummaries, pfWarnings, pfTxCount, pfRwCount, pfRwTableAtCall,
            pfOpened, pfFiles>>

None == <<>>
Some(v) == <<v>>

\* lists of at most n elements of S
SeqUpTo(S, n) == UNION {[1..k -> S] : k \in 0..n}

(***************************************************************************)
(* Text helpers                                                            *)
(***************************************************************************)
Digits == {"0", "1", "2", "3", "4", "5", "6", "7", "8", "9"}

DigitVal(c) ==
    CASE c = "0" -> 0 [] c = "1" -> 1 [] c = "2" -> 2 [] c = "3" -> 3
      [] c = "4" -> 4 [] c = "5" -> 5 [] c = "6" -> 6 [] c = "7" -> 7
      [] c = "8" -> 8 [] c = "9" -> 9

\* str.isdigit(): non-empty and every character a digit
IsDigitStr(s) == Len(s) > 0 /\ \A i \in 1..Len(s) : s[i] \in Digits

RECURSIVE NatOf(_)
NatOf(s) == IF Len(s) = 0 THEN 0
            ELSE 10 * NatOf(SubSeq(s, 1, Len(s) - 1)) + DigitVal(s[Len(s)])

\* str.replace(c, "")
RECURSIVE RemoveChar(_, _)
RemoveChar(s, c) ==
    IF Len(s) = 0 THEN <<>>
    ELSE IF Head(s) = c THEN RemoveChar(Tail(s), c)
    ELSE <<Head(s)>> \o RemoveChar(Tail(s), c)

\* str.strip() for the blank character
RECURSIVE LStrip(_)
LStrip(s) == IF Len(s) > 0 /\ Head(s) = " " THEN LStrip(Tail(s)) ELSE s
RECURSIVE RStrip(_)
RStrip(s) == IF Len(s) > 0 /\ s[Len(s)] = " " THEN RStrip(SubSeq(s, 1, Len(s) - 1)) ELSE s
Strip(s) == RStrip(LStrip(s))

\* int(s) of Python: blanks around, an optional sign, then digits; None for
\* the ValueError it raises otherwise
IntOfStr(s) ==
    LET t == Strip(s)
        signed == Len(t) > 0 /\ Head(t) \in {"-", "+"}
        body == IF signed THEN Tail(t) ELSE t
    IN  IF IsDigitStr(body)
        THEN Some(IF signed /\ Head(t) = "-" THEN 0 - NatOf(body) ELSE NatOf(body))
        ELSE None

\* str.lower(), character by character
LowerChar(c) ==
    CASE c = "A" -> "a" [] c = "B" -> "b" [] c = "C" -> "c" [] c = "D"
      -> "d" [] c = "E" -> "e" [] c = "F" -> "f" [] c = "G" -> "g" [] c
      = "H" -> "h" [] c = "I" -> "i" [] c = "J" -> "j" [] c = "K" -> "k"
      [] c = "L" -> "l" [] c = "M" -> "m" [] c = "N" -> "n" [] c = "O"
      -> "o" [] c = "P" -> "p" [] c = "Q" -> "q" [] c = "R" -> "r" [] c
      = "S" -> "s" [] c = "T" -> "t" [] c = "U" -> "u" [] c = "V" -> "v"
      [] c = "W" -> "w" [] c = "X" -> "x" [] c = "Y" -> "y" [] c = "Z"
      -> "z" [] OTHER -> c
Lower(s) == [i \in 1..Len(s) |-> LowerChar(s[i])]

\* needle in hay (substring)
Contains(hay, needle) ==
    LET h == hay
        n == needle
    IN  \E k \in 0..(Len(h) - Len(n)) : SubSeq(h, k + 1, k + Len(n)) = n

\* str.startswith(prefix)
StartsWith(s, prefix) ==
    Len(prefix) <= Len(s) /\ SubSeq(s, 1, Len(prefix)) = prefix

\* the positions k at which needle occurs in hay (hay[k+1..k+Len(needle)])
Occurrences(hay, needle) ==
    {k \in 0..(Len(hay) - Len(needle)) : SubSeq(hay, k + 1, k + Len(needle)) = needle}

\* str.split(): the maximal runs of non-blank characters
RECURSIVE SplitFrom(_, _, _)
SplitFrom(s, i, word) ==
    IF i > Len(s) THEN (IF word = <<>> THEN <<>> ELSE <<word>>)
    ELSE IF s[i] = " "
    THEN (IF word = <<>> THEN <<>> ELSE <<word>>) \o SplitFrom(s, i + 1, <<>>)
    ELSE SplitFrom(s, i + 1, Append(word, s[i]))
Split(s) == SplitFrom(s, 1, <<>>)

\* " ".join(words)
RECURSIVE Join(_)
Join(words) ==
    IF Len(words) = 0 THEN <<>>
    ELSE IF Len(words) = 1 THEN words[1]
    ELSE words[1] \o <<" ">> \o Join(Tail(words))

UpperLetters == {"A", "B", "C", "D", "E", "F", "G", "H", "I", "J", "K", "L", "M",
                 "N", "O", "P", "Q", "R", "S", "T", "U", "V", "W", "X", "Y", "Z"}
LowerLetters == {LowerChar(c) : c \in UpperLetters}
\* \w of re
\* str.upper(), character by character
UpperChar(c) ==
    IF c \in LowerLetters THEN CHOOSE u \in UpperLetters : LowerChar(u) = c ELSE c
Upper(s) == [i \in 1..Len(s) |-> UpperChar(s[i])]

WordChars == UpperLetters \cup LowerLetters \cup Digits \cup {"_"}

\* a token that [\d,]+\.\d{2} matches in full: digits and commas, a dot, two digits
IsAmountToken(t) ==
    /\ Len(t) >= 4
    /\ t[Len(t) - 2] = "."
    /\ t[Len(t) - 1] \in Digits /\ t[Len(t)] \in Digits
    /\ \A i \in 1..(Len(t) - 3) : t[i] \in Digits \cup {","}

\* float(token.replace(",", "")) of such a token, in hundredths
AmountOf(t) ==
    LET whole == RemoveChar(SubSeq(t, 1, Len(t) - 3), ",")
    IN  100 * NatOf(whole) + 10 * DigitVal(t[Len(t) - 1]) + DigitVal(t[Len(t)])

\* uuid.uuid4() of sbiRewardsHelper: a fresh token at every call
Uuids == {"uuid-1", "uuid-2"}

(***************************************************************************)
(* dbManager.py                                                            *)
(***************************************************************************)
\* UNIQUE (date, description, amount, transactionType, cardHolderName)
TxKey == {"date", "description", "amount", "transactionType", "cardHolderName"}
\* UNIQUE (statementDate, cardNumber)
RwKey == {"statementDate", "cardNumber"}

\* SQLite's UNIQUE: two rows conflict when they agree on every column of the
\* key and none of these columns is NULL (NULLs are distinct from each other)
UniqueConflict(r, s, key) == \A c \in key : r[c] # None /\ r[c] = s[c]

\* INSERT OR IGNORE of one row: [table, changes]
InsertOrIgnore(table, row, key) ==
    IF \E i \in 1..Len(table) : UniqueConflict(table[i], row, key)
    THEN [table |-> table, changes |-> 0]
    ELSE [table |-> Append(table, row), changes |-> 1]

\* executemany: the rows in order; rowcount is the sum of the changes
RECURSIVE ExecuteMany(_, _, _)
ExecuteMany(table, rows, key) ==
    IF Len(rows) = 0 THEN [table |-> table, changes |-> 0]
    ELSE LET one == InsertOrIgnore(table, Head(rows), key)
             rest == ExecuteMany(one.table, Tail(rows), key)
         IN  [table |-> rest.table, changes |-> one.changes + rest.changes]

\* float(tx.get("amount")) if tx.get("amount") else None: 0 is falsy
TxAmountColumn(amount) ==
    IF amount = None \/ amount = Some(0) THEN None ELSE amount

\* int(tx.get("rewardPoints")) if tx.get("rewardPoints") else None, for the
\* text the AU parser stores in rewardPoints (HDFC's integers are their
\* decimal text here): the column's value, or "raise" for int()'s ValueError
TxRewardPointsColumn(rp) ==
    IF rp = None \/ rp = Some(<<>>) THEN [raise |-> FALSE, v |-> None]
    ELSE LET n == IntOfStr(rp[1])
         IN  IF n = None THEN [raise |-> TRUE, v |-> None]
             ELSE [raise |-> FALSE, v |-> n]

\* the tuple built for one transaction dict (the columns the model keeps)
TxRow(tx) ==
    [date            |-> tx.date,
     description     |-> tx.description,
     amount          |-> TxAmountColumn(tx.amount),
     transactionType |-> tx.transactionType,
     rewardPoints    |-> TxRewardPointsColumn(tx.rewardPoints).v,
     cardNumber      |-> tx.cardNumber,
     cardHolderName  |-> tx.cardHolderName,
     parserUsed      |-> IF tx.parserUsed = None THEN Some("genericPdfParser")
                         ELSE tx.parserUsed]

TxRows(transactions) == [i \in 1..Len(transactions) |-> TxRow(transactions[i])]

\* insertTransactions(transactions) on a table: [table, ret]
InsertTransactionsOn(table, transactions) ==
    IF Len(transactions) = 0 THEN [table |-> table, ret |-> 0]
    ELSE IF \E i \in 1..Len(transactions) :
                TxRewardPointsColumn(transactions[i].rewardPoints).raise
    THEN [table |-> table, ret |-> 0]      \* except Exception: return 0
    ELSE LET done == ExecuteMany(table, TxRows(transactions), TxKey)
         IN  [table |-> done.table, ret |-> done.changes]

\* the tuple built for one reward summary dict: int(x) if x else None
RwIntColumn(x) == IF x = None \/ x = Some(0) THEN None ELSE x

RwRow(s) ==
    [statementDate  |-> s.statementDate,
     cardNumber     |-> s.cardNumber,
     cardHolderName |-> s.cardHolderName,
     openingBalance |-> RwIntColumn(s.openingBalance),
     earned         |-> RwIntColumn(s.earned),
     redeemed       |-> RwIntColumn(s.redeemed),
     adjustedLapsed |-> RwIntColumn(s.adjustedLapsed),
     closingBalance |-> RwIntColumn(s.closingBalance),
     parserUsed     |-> IF s.parserUsed = None THEN Some("genericPdfParser")
                        ELSE s.parserUsed,
     importId       |-> s.importId]

RwRows(summaries) == [i \in 1..Len(summaries) |-> RwRow(summaries[i])]

\* insertRewardSummary(summaries) on a table: [table, ret]
InsertRewardSummaryOn(table, summaries) ==
    IF Len(summaries) = 0 THEN [table |-> table, ret |-> 0]
    ELSE LET done == ExecuteMany(table, RwRows(summaries), RwKey)
         IN  [table |-> done.table, ret |-> done.changes]

(***************************************************************************)
(* rewardValidator.py                                                      *)
(*                                                                         *)
(* A value of a summary dict is [t |-> "none"], [t |-> "int", n |-> n] or  *)
(* [t |-> "str", s |-> text]; a key the dict lacks is not in its DOMAIN.   *)
(* A message is the f-string's parts: [kind |-> "ok"] for "",              *)
(* [kind |-> "incomplete_fields", missing |-> names] and                   *)
(* [kind |-> "mismatch", expected_closing, actual_closing, opening,        *)
(* earned, redeemed, adjusted].                                            *)
(***************************************************************************)
PyNone == [t |-> "none"]
PyInt(n) == [t |-> "int", n |-> n]
PyStr(text) == [t |-> "str", s |-> text]

RvFields == <<"openingBalance", "earned", "redeemed", "adjustedLapsed",
              "closingBalance">>
RvFieldSet == {RvFields[i] : i \in 1..Len(RvFields)}

\* dict.get(key)
DictGet(d, key) == IF key \in DOMAIN d THEN d[key] ELSE PyNone

\* _toIntSafe(v)
ToIntSafe(v) ==
    IF v.t = "none" THEN None
    ELSE IF v.t = "int" THEN Some(v.n)
    ELSE IntOfStr(Strip(RemoveChar(v.s, ",")))

\* the fields appended to missing, in the order of the five ifs
RECURSIVE MissingFrom(_, _)
MissingFrom(summary, i) ==
    IF i > Len(RvFields) THEN <<>>
    ELSE (IF ToIntSafe(DictGet(summary, RvFields[i])) = None
          THEN <<RvFields[i]>> ELSE <<>>) \o MissingFrom(summary, i + 1)
MissingAllButClosing(summary) ==
    SelectSeq(MissingFrom(summary, 1), LAMBDA f : f # "closingBalance")
MissingFields(summary) == MissingFrom(summary, 1)

\* expected = opening + earned - redeemed - adjusted
ExpectedClosingAddsAdjusted(opening, earned, redeemed, adjusted) ==
    opening + earned - redeemed + adjusted
ExpectedClosing(opening, earned, redeemed, adjusted) ==
    opening + earned - redeemed - adjusted

\* validateRewardSummary(summary): [valid, message]
ValidateRewardSummary(summary) ==
    LET opening  == ToIntSafe(DictGet(summary, "openingBalance"))
        earned   == ToIntSafe(DictGet(summary, "earned"))
        redeemed == ToIntSafe(DictGet(summary, "redeemed"))
        adjusted == ToIntSafe(DictGet(summary, "adjustedLapsed"))
        closing  == ToIntSafe(DictGet(summary, "closingBalance"))
    IN  IF \E x \in {opening, earned, redeemed, adjusted, closing} : x = None
        THEN [valid |-> FALSE,
              message |-> [kind |-> "incomplete_fields",
                           missing |-> MissingFields(summary)]]
        ELSE LET expected == ExpectedClosing(opening[1], earned[1],
                                             redeemed[1], adjusted[1])
             IN  IF expected = closing[1]
                 THEN [valid |-> TRUE, message |-> [kind |-> "ok"]]
                 ELSE [valid |-> FALSE,
                       message |-> [kind |-> "mismatch",
                                    expected_closing |-> expected,
                                    actual_closing |-> closing[1],
                                    opening |-> opening[1],
                                    earned |-> earned[1],
                                    redeemed |-> redeemed[1],
                                    adjusted |-> adjusted[1]]]

MaxPts == 1         \* the integer fields range over -MaxPts..MaxPts

TextTen == <<"1", ",", "0">>            \* "1,0": comma-tolerant, reads as 10
TextNone == <<"N", "O", "N", "E">>      \* "NONE": no integer
RvValues == {PyNone, PyStr(TextTen), PyStr(TextNone)}
                \cup {PyInt(n) : n \in (0 - MaxPts)..MaxPts}
\* every dict over a subset of the five fields
RvSummaries == UNION {[D -> RvValues] : D \in SUBSET RvFieldSet}

RvIdle == rvSummary = <<>> /\ rvResult = None

CallValidateRewardSummary ==
    /\ rvResult = None
    /\ rvResult' = Some(ValidateRewardSummary(rvSummary))
    /\ UNCHANGED rvSummary

(***************************************************************************)
(* categorizer.py                                                          *)
(*                                                                         *)
(* categories.json is a sequence of [name, cat] in file order, cat the     *)
(* pair [category, subCategory].  categoryRules.json is a sequence of      *)
(* [pattern, data]: a pattern is [valid, alts], the regular expression     *)
(* alt1|alt2|... of literal words (valid FALSE: re.compile raises          *)
(* re.error); data is [kind |-> "general", pair] or [kind |-> "typed",     *)
(* DEBIT, CREDIT] with each of DEBIT and CREDIT an option of a pair.       *)
(***************************************************************************)
Pair(category, subCategory) == [category |-> category, subCategory |-> subCategory]
FallbackPair == Pair("Uncategorized", "Needs Review")

\* sorted(categories.items(), key=len(name), reverse=True): a stable sort,
\* items of equal length keep their file order
RECURSIVE InsertByLength(_, _)
InsertByLength(sorted, item) ==
    IF Len(sorted) = 0 THEN <<item>>
    ELSE IF Len(Head(sorted).name) >= Len(item.name)
    THEN <<Head(sorted)>> \o InsertByLength(Tail(sorted), item)
    ELSE <<item>> \o sorted
RECURSIVE SortedByLength(_)
SortedByLength(items) ==
    IF Len(items) = 0 THEN <<>>
    ELSE InsertByLength(SortedByLength(SubSeq(items, 1, Len(items) - 1)),
                        items[Len(items)])
UnsortedMerchants(categories) == categories
SortedMerchants(categories) == SortedByLength(categories)

\* the normalized rule of one entry of categoryRules.json
NormalizedRule(data) ==
    IF data.kind = "typed"
    THEN [DEBIT |-> data.DEBIT, CREDIT |-> data.CREDIT]
    ELSE [DEBIT |-> Some(data.pair), CREDIT |-> Some(data.pair)]

\* processed_rules: the entries whose pattern compiles, in file order
ProcessedRules(rules) ==
    LET ok == SelectSeq(rules, LAMBDA r : r.pattern.valid)
    IN  [i \in 1..Len(ok) |-> [compiled_pattern |-> ok[i].pattern,
                                rule |-> NormalizedRule(ok[i].data)]]

\* compiled_pattern.search(text) under re.IGNORECASE
PatternSearch(pattern, text) ==
    \E i \in 1..Len(pattern.alts) : Contains(Lower(text), Lower(pattern.alts[i]))

\* rule.get(tx_type): None for a type that is neither DEBIT nor CREDIT
RuleFor(rule, tx_type) ==
    IF tx_type = "DEBIT" THEN rule.DEBIT
    ELSE IF tx_type = "CREDIT" THEN rule.CREDIT
    ELSE None

\* the merchant loop: the pair of the first sorted merchant whose lowercased
\* name is in desc_lower, or None
RECURSIVE MerchantMatch(_, _)
MerchantMatch(sorted_merchants, desc_lower) ==
    IF Len(sorted_merchants) = 0 THEN None
    ELSE IF Contains(desc_lower, Lower(Head(sorted_merchants).name))
    THEN Some(Head(sorted_merchants).cat)
    ELSE MerchantMatch(Tail(sorted_merchants), desc_lower)

\* the rule loop: the pair of the first rule whose pattern is found and whose
\* rule for tx_type is a dict, or None
RECURSIVE RuleMatchStopsAtPattern(_, _, _)
RuleMatchStopsAtPattern(processed_rules, desc_lower, tx_type) ==
    IF Len(processed_rules) = 0 THEN None
    ELSE IF PatternSearch(Head(processed_rules).compiled_pattern, desc_lower)
    THEN RuleFor(Head(processed_rules).rule, tx_type)
    ELSE RuleMatchStopsAtPattern(Tail(processed_rules), desc_lower, tx_type)
RECURSIVE RuleMatch(_, _, _)
RuleMatch(processed_rules, desc_lower, tx_type) ==
    IF Len(processed_rules) = 0 THEN None
    ELSE IF /\ PatternSearch(Head(processed_rules).compiled_pattern, desc_lower)
            /\ RuleFor(Head(processed_rules).rule, tx_type) # None
    THEN RuleFor(Head(processed_rules).rule, tx_type)
    ELSE RuleMatch(Tail(processed_rules), desc_lower, tx_type)

\* the pair one transaction gets: merchant, else rule, else the fallback
ChoosePairRuleFirst(merchant, rule) ==
    IF rule # None THEN rule[1]
    ELSE IF merchant # None THEN merchant[1]
    ELSE FallbackPair
ChoosePair(merchant, rule) ==
    IF merchant # None THEN merchant[1]
    ELSE IF rule # None THEN rule[1]
    ELSE FallbackPair

\* tx.get("transactionType", "DEBIT").upper()
TxTypeOf(tx) == IF tx.transactionType = None THEN "DEBIT" ELSE tx.transactionType[1]

\* the body of the loop for one transaction
CategorizeOneStoringLower(sorted_merchants, processed_rules, tx) ==
    LET desc_lower == Lower(tx.description)
        pair == ChoosePair(MerchantMatch(sorted_merchants, desc_lower),
                           RuleMatch(processed_rules, desc_lower, TxTypeOf(tx)))
    IN  [tx EXCEPT !.category = Some(pair.category),
                   !.subCategory = Some(pair.subCategory),
                   !.description = desc_lower]
CategorizeOne(sorted_merchants, processed_rules, tx) ==
    LET desc_lower == Lower(tx.description)
        pair == ChoosePair(MerchantMatch(sorted_merchants, desc_lower),
                           RuleMatch(processed_rules, desc_lower, TxTypeOf(tx)))
    IN  [tx EXCEPT !.category = Some(pair.category),
                   !.subCategory = Some(pair.subCategory)]

\* categorizeTransactions(transactions)
CategorizeTransactions(categories, rules, transactions) ==
    LET sorted_merchants == SortedMerchants(categories)
        processed_rules == ProcessedRules(rules)
    IN  [i \in 1..Len(transactions) |->
            CategorizeOne(sorted_merchants, processed_rules, transactions[i])]

\* _log_uncategorized(transactions) on the file: the transactions whose
\* category is "Uncategorized" replace its rows, if there are any
UncategorizedOf(transactions) ==
    SelectSeq(transactions, LAMBDA tx : tx.category = Some("Uncategorized"))
LogUncategorized(file, transactions) ==
    IF UncategorizedOf(transactions) # <<>> THEN UncategorizedOf(transactions)
    ELSE file

\* ---- the configurations and transactions the categorizer is run on
NameAmazon == <<"A", "m", "a", "z", "o", "n">>
NameAmazonPay == <<"A", "m", "a", "z", "o", "n", " ", "P", "a", "y">>
NameSwiggy == <<"S", "w", "i", "g", "g", "y">>
WordUpi == <<"U", "P", "I">>
WordRefund == <<"r", "e", "f", "u", "n", "d">>
WordReversal == <<"r", "e", "v", "e", "r", "s", "a", "l">>
DescAmazonPay == <<"A", "m", "a", "z", "o", "n", " ", "P", "a", "y", " ", "p", "u", "r", "c", "h", "a", "s", "e">>
DescSwiggyAmazon == <<"S", "W", "I", "G", "G", "Y", "*", "A", "M", "A", "Z", "O", "N">>
DescUpiSwiggy == <<"U", "P", "I", "-", "S", "w", "i", "g", "g", "y", " ", "I", "n", "s", "t", "a", "m", "a", "r", "t">>
DescUpiRefund == <<"U", "P", "I", " ", "r", "e", "f", "u", "n", "d">>
DescCoffee == <<"C", "o", "f", "f", "e", "e">>

CatA == Pair("Shopping", "Online")
CatB == Pair("Wallet", "Amazon Pay")
CatFood == Pair("Food", "Delivery")

Merchants == {[name |-> NameAmazon, cat |-> CatA],
              [name |-> NameAmazonPay, cat |-> CatB],
              [name |-> NameSwiggy, cat |-> CatFood]}

\* "UPI": one pair for both types
RuleUpi == [pattern |-> [valid |-> TRUE, alts |-> <<WordUpi>>],
            data |-> [kind |-> "general", pair |-> Pair("Transfers", "UPI")]]
\* "refund|reversal": CREDIT only
RuleRefund == [pattern |-> [valid |-> TRUE, alts |-> <<WordRefund, WordReversal>>],
               data |-> [kind |-> "typed", DEBIT |-> None,
                         CREDIT |-> Some(Pair("Refunds", "Merchant Refund"))]]
\* a pattern re.compile rejects
RuleInvalid == [pattern |-> [valid |-> FALSE, alts |-> <<WordUpi>>],
                data |-> [kind |-> "general", pair |-> Pair("Broken", "Broken")]]
Rules == {RuleUpi, RuleRefund, RuleInvalid}

\* the sequences without repetition of at most n elements of S (the items of
\* a JSON object, whose keys are distinct)
Arrangements(S, n) ==
    {q \in SeqUpTo(S, n) : \A i, j \in 1..Len(q) : i # j => q[i] # q[j]}

CatDescriptions == {DescAmazonPay, DescSwiggyAmazon, DescUpiSwiggy,
                    DescUpiRefund, DescCoffee}
\* a transaction as a parser leaves it: category and subCategory None, and
\* transactionType None where the parser sets no such key (generic, AU)
CatTx(d, t) == [description |-> d, transactionType |-> t,
                category |-> None, subCategory |-> None]
CatTxDomain == {CatTx(d, t) : d \in CatDescriptions, t \in {Some("DEBIT"), Some("CREDIT")}}
                   \cup {CatTx(DescUpiRefund, None)}

MaxMerchants == 3   \* entries of categories.json
MaxRules == 2       \* entries of categoryRules.json
MaxCatTx == 1       \* transactions handed to categorizeTransactions

\* the inputs of one run
CatCategoriesInputs == Arrangements(Merchants, MaxMerchants)
CatRulesInputs == Arrangements(Rules, MaxRules)
CatTxInputs == SeqUpTo(CatTxDomain, MaxCatTx)

CatIdle == catCategories = <<>> /\ catRules = <<>> /\ catTxs = <<>> /\ catDone = FALSE

CallCategorizeTransactions ==
    /\ ~catDone
    /\ catTxs' = CategorizeTransactions(catCategories, catRules, catTxs)
    /\ catDone' = TRUE
    /\ UNCHANGED <<catCategories, catRules>>

(***************************************************************************)
(* parsers/sbiParser.py, parsers/sbiRewardsHelper.py                       *)
(*                                                                         *)
(* A line is text whose words are separated by single blanks; the regular  *)
(* expressions are computed on its words (str.split) and characters.       *)
(***************************************************************************)
TextCreditCardNumber == <<"C", "r", "e", "d", "i", "t", " ", "C", "a", "r",
    "d", " ", "N", "u", "m", "b", "e", "r">>
TextSpCreditCardNumber == <<" ", "C", "r", "e", "d", "i", "t", " ", "C", "a",
    "r", "d", " ", "N", "u", "m", "b", "e", "r">>
TextStatementPeriod == <<"f", "o", "r", " ", "S", "t", "a", "t", "e", "m",
    "e", "n", "t", " ", "P", "e", "r", "i", "o", "d", ":">>
TextSbiHeader == <<"D", "a", "t", "e", " ", "T", "r", "a", "n", "s", "a",
    "c", "t", "i", "o", "n", " ", "D", "e", "t", "a", "i", "l", "s", " ",
    "A", "m", "o", "u", "n", "t">>
TextTo == <<"t", "o">>
TextXXXX == <<"X", "X", "X", "X">>
TextD == <<"D">>
TextC == <<"C">>
TextSbiFile == <<"S", "B", "I", "_", "A", "u", "g", ".", "p", "d", "f">>

\* "%b": the month abbreviations strptime accepts, in any case; 0 for none
MonthOf(tok) ==
    LET m == Lower(tok)
    IN  CASE m = <<"j", "a", "n">> -> 1  [] m = <<"f", "e", "b">> -> 2
          [] m = <<"m", "a", "r">> -> 3  [] m = <<"a", "p", "r">> -> 4
          [] m = <<"m", "a", "y">> -> 5  [] m = <<"j", "u", "n">> -> 6
          [] m = <<"j", "u", "l">> -> 7  [] m = <<"a", "u", "g">> -> 8
          [] m = <<"s", "e", "p">> -> 9  [] m = <<"o", "c", "t">> -> 10
          [] m = <<"n", "o", "v">> -> 11 [] m = <<"d", "e", "c">> -> 12
          [] OTHER -> 0

DaysIn(month, year) ==
    IF month = 2 THEN (IF year % 4 = 0 /\ (year % 100 # 0 \/ year % 400 = 0) THEN 29 ELSE 28)
    ELSE IF month \in {4, 6, 9, 11} THEN 30 ELSE 31

\* datetime.strptime(date_str, "%d %b %y").date(), None for its ValueError
SbiDateOf(dd, mon, yy) ==
    LET d == NatOf(dd)
        m == MonthOf(mon)
        y == IF NatOf(yy) < 69 THEN 2000 + NatOf(yy) ELSE 1900 + NatOf(yy)
    IN  IF m = 0 \/ d < 1 \/ d > DaysIn(m, y) THEN None
        ELSE Some([year |-> y, month |-> m, day |-> d])

\* generateImportId(filePath, statementDate): the md5 of "<base name>_<statementDate>"
GenerateImportId(baseName, statementDate) ==
    [md5 |-> <<baseName, statementDate>>]

\* re.match(r"(\d{2}\s\w{3}\s\d{2})\s+(.*?)\s+([\d,]+\.\d{2})\s+([DC])$", line)
SbiTxMatch(line) ==
    LET t == Split(line)
        n == Len(t)
    IN  /\ n >= 6
        /\ Len(t[1]) = 2 /\ IsDigitStr(t[1])
        /\ Len(t[2]) = 3 /\ \A i \in 1..3 : t[2][i] \in WordChars
        /\ Len(t[3]) = 2 /\ IsDigitStr(t[3])
        /\ IsAmountToken(t[n - 1])
        /\ t[n] \in {TextD, TextC}

\* "DEBIT" if dcFlag == "D" else "CREDIT"
SbiTransactionTypeAlwaysDebit(dcFlag) == "DEBIT"
SbiTransactionType(dcFlag) == IF dcFlag = TextD THEN "DEBIT" ELSE "CREDIT"

\* the dict appended for a matched row
SbiTransaction(line, cardNumber, primaryCardHolder, statementDate, importId) ==
    LET t == Split(line)
        n == Len(t)
    IN  [date            |-> SbiDateOf(t[1], t[2], t[3]),
         description     |-> Strip(Join(SubSeq(t, 4, n - 2))),
         amount          |-> AmountOf(t[n - 1]),
         transactionType |-> SbiTransactionType(t[n]),
         cardNumber      |-> cardNumber,
         cardHolderName  |-> primaryCardHolder,
         sourceBank      |-> "SBI",
         statementDate   |-> statementDate,
         parserUsed      |-> "sbiParser",
         importId        |-> importId]

\* line.split(" Credit Card Number")[0].strip()
SbiHolderOf(line) ==
    LET at == Occurrences(line, TextSpCreditCardNumber)
    IN  IF at = {} THEN Strip(line)
        ELSE Strip(SubSeq(line, 1, CHOOSE k \in at : \A j \in at : k <= j))

\* re.match(r"X{4}\sX{4}\sX{4}\sXX\d{2}", line)
SbiCardMatch(line) ==
    LET t == Split(line)
    IN  /\ Len(t) >= 4
        /\ t[1] = TextXXXX /\ t[2] = TextXXXX /\ t[3] = TextXXXX
        /\ Len(t[4]) >= 4 /\ t[4][1] = "X" /\ t[4][2] = "X"
        /\ t[4][3] \in Digits /\ t[4][4] \in Digits

\* re.search(r"for Statement Period:\s*(.+)", line): group 1, or None
SbiPeriodOf(line) ==
    LET at == {k \in Occurrences(line, TextStatementPeriod) :
                  k + Len(TextStatementPeriod) < Len(line)}
    IN  IF at = {} THEN None
        ELSE LET k == CHOOSE k \in at : \A j \in at : k <= j
             IN  Some(LStrip(SubSeq(line, k + Len(TextStatementPeriod) + 1, Len(line))))

\* the 5-number block: re.match(r"^(\d+[ ,]*){5}$", line.replace(",", "")),
\* then parts = [int(x.replace(",", "")) for x in line.split()] and
\* len(parts) == 5; the five numbers, or None when nothing is assigned
SbiRewardBlockOf(line) ==
    LET bare == Split(RemoveChar(line, ","))
        digits == Len(RemoveChar(RemoveChar(line, ","), " "))
        parts == Split(line)
    IN  IF /\ Len(bare) >= 1 /\ Len(bare) <= 5 /\ digits >= 5
           /\ \A i \in 1..Len(bare) : IsDigitStr(bare[i])
           /\ \A i \in 1..Len(parts) : IsDigitStr(RemoveChar(parts[i], ","))
           /\ Len(parts) = 5
        THEN Some([opening  |-> NatOf(RemoveChar(parts[1], ",")),
                   earned   |-> NatOf(RemoveChar(parts[2], ",")),
                   redeemed |-> NatOf(RemoveChar(parts[3], ",")),
                   closing  |-> NatOf(RemoveChar(parts[4], ",")),
                   lapsed   |-> NatOf(RemoveChar(parts[5], ","))])
        ELSE None

\* parseRewards, one line: the five numbers it reads from the line, or None
\* when the line is passed over (not five tokens, or int() raises)
SbiHelperLineOf(rawLine) ==
    LET tokens == Split(Strip(rawLine))
    IN  IF /\ Len(tokens) = 5 /\ IsDigitStr(tokens[1]) /\ IsDigitStr(tokens[2])
           /\ IntOfStr(tokens[3]) # None /\ IntOfStr(tokens[4]) # None
           /\ (Lower(tokens[5]) = Lower(TextNone) \/ IntOfStr(tokens[5]) # None)
        THEN Some([openingBalance |-> NatOf(tokens[1]),
                   earned         |-> NatOf(tokens[2]),
                   redeemed       |-> IntOfStr(tokens[3])[1],
                   adjustedLapsed |-> IntOfStr(tokens[4])[1],
                   closingBalance |-> IF Lower(tokens[5]) = Lower(TextNone) THEN 0
                                      ELSE IntOfStr(tokens[5])[1]])
        ELSE None

\* statementPeriod.split("to")[-1].strip()
SbiPeriodEnd(statementPeriod) ==
    LET at == Occurrences(statementPeriod, TextTo)
    IN  IF at = {} THEN Strip(statementPeriod)
        ELSE LET k == CHOOSE k \in at : \A j \in at : j <= k
             IN  Strip(SubSeq(statementPeriod, k + Len(TextTo) + 1, Len(statementPeriod)))

\* parseRewards(lines, statementDate, cardNumber, primaryCardHolder) for a
\* page whose first readable reward line gave found: with statementDate None
\* every candidate line raises on None.split and is passed over
SbiParseRewards(found, statementDate, cardNumber, cardHolderName, uuid) ==
    IF found = None \/ statementDate = None THEN <<>>
    ELSE <<[statementDate  |-> Some(SbiPeriodEnd(statementDate[1])),
            cardNumber     |-> cardNumber,
            cardHolderName |-> cardHolderName,
            openingBalance |-> found[1].openingBalance,
            earned         |-> found[1].earned,
            redeemed       |-> found[1].redeemed,
            adjustedLapsed |-> found[1].adjustedLapsed,
            closingBalance |-> found[1].closingBalance,
            parserUsed     |-> "sbiParser",
            importId       |-> [uuid |-> uuid]]>>

\* ---- the lines the SBI parser is run on
SbiLineHolder == <<"Y", "A", "Y", "I", "N", " ", "V", "A", "S", "H", "I",
    "S", "T", " ", "C", "r", "e", "d", "i", "t", " ", "C", "a", "r", "d",
    " ", "N", "u", "m", "b", "e", "r">>
SbiLineCard == <<"X", "X", "X", "X", " ", "X", "X", "X", "X", " ", "X", "X",
    "X", "X", " ", "X", "X", "5", "1">>
SbiLinePeriod == <<"f", "o", "r", " ", "S", "t", "a", "t", "e", "m", "e",
    "n", "t", " ", "P", "e", "r", "i", "o", "d", ":", " ", "1", "2", " ",
    "A", "u", "g", " ", "2", "5", " ", "t", "o", " ", "1", "1", " ", "S",
    "e", "p", " ", "2", "5">>
SbiLineHeader == <<"D", "a", "t", "e", " ", "T", "r", "a", "n", "s", "a",
    "c", "t", "i", "o", "n", " ", "D", "e", "t", "a", "i", "l", "s", " ",
    "A", "m", "o", "u", "n", "t", " ", "(", " ", "R", "s", " ", ")">>
SbiLineRowD == <<"1", "2", " ", "A", "u", "g", " ", "2", "5", " ", "U", "P",
    "I", "-", "S", "w", "i", "g", "g", "y", " ", "I", "n", "s", "t", "a",
    "m", "a", "r", "t", " ", "3", "2", "6", ".", "0", "0", " ", "D">>
SbiLineRowC == <<"1", "3", " ", "A", "u", "g", " ", "2", "5", " ", "P", "A",
    "Y", "M", "E", "N", "T", " ", "R", "E", "C", "E", "I", "V", "E", "D",
    " ", "1", ",", "5", "0", "0", ".", "0", "0", " ", "C">>
SbiLineRowInner == <<"1", "4", " ", "A", "u", "g", " ", "2", "5", " ", "E",
    "M", "I", " ", "5", "0", "0", ".", "0", "0", " ", "D", " ", "F", "E",
    "E", " ", "1", ",", "2", "5", "0", ".", "5", "0", " ", "C">>
SbiLineRowBadDate == <<"3", "1", " ", "F", "e", "b", " ", "2", "5", " ", "F",
    "E", "E", " ", "1", "0", ".", "0", "0", " ", "D">>
SbiLineRewards == <<"1", "9", "6", "8", " ", "1", "5", "8", " ", "2", "0",
    "0", "0", " ", "1", "2", "6", " ", "0">>
SbiLineRewardsNone == <<"1", "9", "6", "8", " ", "1", "5", "8", " ", "2",
    "0", "0", "0", " ", "1", "2", "6", " ", "N", "O", "N", "E">>
SbiLineOther == <<"T", "h", "a", "n", "k", " ", "y", "o", "u">>
SbiLineBlank == <<" ">>

SbiLines == {SbiLineHolder, SbiLineCard, SbiLinePeriod, SbiLineHeader, SbiLineRowD,
             SbiLineRowC, SbiLineRowInner, SbiLineRowBadDate, SbiLineRewards,
             SbiLineRewardsNone, SbiLineOther, SbiLineBlank}

MaxSbiLines == 4    \* lines read in one parse
MaxSbiPages == 2    \* pages of the PDF

SbiIdle ==
    /\ sbiPc = "idle" /\ sbiPageNum = 0 /\ sbiInPage = FALSE /\ sbiCount = 0
    /\ sbiLine = None /\ sbiEmittedBefore = 0
    /\ sbiPrimaryCardHolder = None /\ sbiCardNumber = None /\ sbiStatementDate = None
    /\ sbiImportId = None /\ sbiReward = None /\ sbiInsideTransactions = FALSE
    /\ sbiPageRewards = None /\ sbiTransactions = <<>> /\ sbiRewardSummaries = <<>>

\* parse(filePath) up to the first page
SbiStart ==
    /\ sbiPc = "pages" /\ sbiPageNum = 0 /\ sbiInPage = FALSE /\ sbiCount = 0
    /\ sbiLine = None /\ sbiEmittedBefore = 0
    /\ sbiPrimaryCardHolder = None /\ sbiCardNumber = None /\ sbiStatementDate = None
    /\ sbiImportId = None /\ sbiReward = None /\ sbiInsideTransactions = FALSE
    /\ sbiPageRewards = None /\ sbiTransactions = <<>> /\ sbiRewardSummaries = <<>>

\* a page whose extract_text() is None or empty: logged and skipped
SbiSkipPage ==
    /\ sbiPc = "pages" /\ ~sbiInPage /\ sbiPageNum < MaxSbiPages
    /\ sbiPageNum' = sbiPageNum + 1
    /\ UNCHANGED <<sbiPc, sbiInPage, sbiCount, sbiLine, sbiEmittedBefore,
                   sbiPrimaryCardHolder, sbiCardNumber, sbiStatementDate,
                   sbiImportId, sbiReward, sbiInsideTransactions, sbiPageRewards,
                   sbiTransactions, sbiRewardSummaries>>

\* a page with text: lines = text.splitlines()
SbiBeginPage ==
    /\ sbiPc = "pages" /\ ~sbiInPage /\ sbiPageNum < MaxSbiPages
    /\ sbiPageNum' = sbiPageNum + 1
    /\ sbiInPage' = TRUE
    /\ sbiPageRewards' = None
    /\ UNCHANGED <<sbiPc, sbiCount, sbiLine, sbiEmittedBefore,
                   sbiPrimaryCardHolder, sbiCardNumber, sbiStatementDate,
                   sbiImportId, sbiReward, sbiInsideTransactions,
                   sbiTransactions, sbiRewardSummaries>>

\* one turn of "for line in lines" on the raw line rawLine
SbiReadLine(rawLine) ==
    LET line == Strip(rawLine)
        holder == IF Contains(line, TextCreditCardNumber) /\ sbiPrimaryCardHolder = None
                  THEN Some(SbiHolderOf(line)) ELSE sbiPrimaryCardHolder
        card == IF SbiCardMatch(line) /\ sbiCardNumber = None
                THEN Some(line) ELSE sbiCardNumber
        stmt == IF SbiPeriodOf(line) # None /\ sbiStatementDate = None
                THEN SbiPeriodOf(line) ELSE sbiStatementDate
        importId == GenerateImportId(TextSbiFile, stmt)
        block == SbiRewardBlockOf(line)
        isHeader == StartsWith(line, TextSbiHeader)
    IN  /\ sbiPc = "pages" /\ sbiInPage /\ sbiCount < MaxSbiLines
        /\ sbiCount' = sbiCount + 1
        /\ sbiLine' = Some(rawLine)
        /\ sbiEmittedBefore' = Len(sbiTransactions)
        /\ sbiPageRewards' = IF sbiPageRewards = None THEN SbiHelperLineOf(rawLine)
                             ELSE sbiPageRewards
        /\ IF line = <<>>
           THEN UNCHANGED <<sbiPrimaryCardHolder, sbiCardNumber, sbiStatementDate,
                            sbiImportId, sbiReward, sbiInsideTransactions,
                            sbiTransactions>>
           ELSE /\ sbiPrimaryCardHolder' = holder
                /\ sbiCardNumber' = card
                /\ sbiStatementDate' = stmt
                /\ sbiImportId' = Some(importId)
                /\ sbiReward' = IF block # None THEN block ELSE sbiReward
                /\ sbiInsideTransactions' = (sbiInsideTransactions \/ isHeader)
                /\ sbiTransactions' =
                       IF ~isHeader /\ sbiInsideTransactions /\ SbiTxMatch(line)
                       THEN Append(sbiTransactions,
                                   SbiTransaction(line, card, holder, stmt, Some(importId)))
                       ELSE sbiTransactions
        /\ UNCHANGED <<sbiPc, sbiPageNum, sbiInPage, sbiRewardSummaries>>

\* the end of a page with text: rewardSummaries + parseRewards(lines, ...)
SbiEndPage ==
    /\ sbiPc = "pages" /\ sbiInPage
    /\ sbiInPage' = FALSE
    /\ \E uuid \in Uuids :
          sbiRewardSummaries' = sbiRewardSummaries \o
              SbiParseRewards(sbiPageRewards, sbiStatementDate, sbiCardNumber,
                              sbiPrimaryCardHolder, uuid)
    /\ UNCHANGED <<sbiPc, sbiPageNum, sbiCount, sbiLine, sbiEmittedBefore,
                   sbiPrimaryCardHolder, sbiCardNumber, sbiStatementDate,
                   sbiImportId, sbiReward, sbiInsideTransactions, sbiPageRewards,
                   sbiTransactions>>

\* after the last page: the parser's own summary, and return
SbiFinish ==
    /\ sbiPc = "pages" /\ ~sbiInPage
    /\ sbiPc' = "done"
    /\ sbiRewardSummaries' =
           IF sbiReward = None THEN sbiRewardSummaries
           ELSE Append(sbiRewardSummaries,
                       [statementDate  |-> sbiStatementDate,
                        cardNumber     |-> sbiCardNumber,
                        cardHolderName |-> sbiPrimaryCardHolder,
                        openingBalance |-> sbiReward[1].opening,
                        earned         |-> sbiReward[1].earned,
                        redeemed       |-> sbiReward[1].redeemed,
                        adjustedLapsed |-> sbiReward[1].lapsed,
                        closingBalance |-> sbiReward[1].closing,
                        parserUsed     |-> "sbiParser",
                        importId       |-> sbiImportId[1]])
    /\ UNCHANGED <<sbiPageNum, sbiInPage, sbiCount, sbiLine, sbiEmittedBefore,
                   sbiPrimaryCardHolder, sbiCardNumber, sbiStatementDate,
                   sbiImportId, sbiReward, sbiInsideTransactions, sbiPageRewards,
                   sbiTransactions>>

(***************************************************************************)
(* parsers/iciciParser.py                                                  *)
(***************************************************************************)
TextCR == <<"C", "R">>

\* re.match(r"\d{4}X{8}\d{4}", line)
IciciCardMatch(line) ==
    /\ Len(line) >= 16
    /\ \A i \in 1..4 : line[i] \in Digits
    /\ \A i \in 5..12 : line[i] = "X"
    /\ \A i \in 13..16 : line[i] \in Digits

\* \d{2}/\d{2}/\d{4} followed by white space: the whole word
IciciIsDate(t) ==
    /\ Len(t) = 10
    /\ \A i \in {1, 2, 4, 5, 7, 8, 9, 10} : t[i] \in Digits
    /\ t[3] = "/" /\ t[6] = "/"

\* [\d,]+\.\d{2} at the start of word t: the length matched, 0 for no match
IciciAmountLen(t) ==
    LET run == CHOOSE k \in 0..Len(t) :
                   /\ \A i \in 1..k : t[i] \in Digits \cup {","}
                   /\ k < Len(t) => t[k + 1] \notin Digits \cup {","}
    IN  IF /\ run >= 1 /\ run + 3 <= Len(t) /\ t[run + 1] = "."
           /\ t[run + 2] \in Digits /\ t[run + 3] \in Digits
        THEN run + 3 ELSE 0

\* the ends k of the words 3..k that (.*?) can take: word k+1 is (\d+) and
\* word k+2 starts with the amount
IciciSplits(t) ==
    {k \in 3..(Len(t) - 2) : IsDigitStr(t[k + 1]) /\ IciciAmountLen(t[k + 2]) > 0}

\* re.match(r"(\d{2}/\d{2}/\d{4})\s+(\d+)\s+(.*?)\s+(\d+)\s+([\d,]+\.\d{2})(?:\s+(CR))?", line)
IciciTxMatch(line) ==
    LET t == Split(line)
    IN  /\ Len(t) >= 5
        /\ IciciIsDate(t[1])
        /\ IsDigitStr(t[2])
        /\ IciciSplits(t) # {}

\* (.*?) is non-greedy: the first split that matches (not the last one)
IciciSplitLast(t) == CHOOSE k \in IciciSplits(t) : \A j \in IciciSplits(t) : j <= k
IciciSplit(t) == CHOOSE k \in IciciSplits(t) : \A j \in IciciSplits(t) : k <= j

\* group 6: "CR" when white space and CR follow the amount, else None
IciciCreditFlag(t, k) ==
    IF /\ IciciAmountLen(t[k + 2]) = Len(t[k + 2])
       /\ k + 3 <= Len(t)
       /\ StartsWith(t[k + 3], TextCR)
    THEN Some(TextCR) ELSE None

\* "CREDIT" if creditFlag == "CR" else "DEBIT"
IciciTransactionType(creditFlag) ==
    IF creditFlag = Some(TextCR) THEN "CREDIT" ELSE "DEBIT"

\* the dict appended for a matched row
IciciTransaction(line, currentCardNumber) ==
    LET t == Split(line)
        k == IciciSplit(t)
    IN  [date            |-> t[1],
         referenceNumber |-> t[2],
         description     |-> Strip(Join(SubSeq(t, 3, k))),
         merchantCode    |-> t[k + 1],
         amount          |-> AmountOf(SubSeq(t[k + 2], 1, IciciAmountLen(t[k + 2]))),
         transactionType |-> IciciTransactionType(IciciCreditFlag(t, k)),
         cardNumber      |-> currentCardNumber,
         cardHolderName  |-> None,
         sourceBank      |-> "ICICI",
         statementDate   |-> None,
         parserUsed      |-> "iciciParser",
         importId        |-> None]

\* ---- the lines the ICICI parser is run on
IciciLineCard == <<"6", "5", "2", "8", "X", "X", "X", "X", "X", "X", "X",
    "X", "1", "0", "0", "5">>
IciciLineRowCR == <<"1", "0", "/", "0", "8", "/", "2", "0", "2", "5", " ",
    "1", "1", "7", "7", "0", "9", "5", "5", "8", "5", "6", " ", "M", "y",
    "n", "t", "r", "a", " ", "1", "1", "1", " ", "5", ",", "5", "5", "2",
    ".", "3", "6", " ", "C", "R">>
IciciLineRow == <<"1", "0", "/", "0", "8", "/", "2", "0", "2", "5", " ", "1",
    "1", "7", "7", "0", "9", "5", "5", "8", "5", "6", " ", "M", "y", "n",
    "t", "r", "a", " ", "1", "1", "1", " ", "5", ",", "5", "5", "2", ".",
    "3", "6">>
IciciLineRowBbps == <<"0", "4", "/", "0", "8", "/", "2", "0", "2", "5", " ",
    "1", "1", "7", "2", "5", "3", "8", "7", "5", "3", "4", " ", "B", "B",
    "P", "S", " ", "P", "a", "y", "m", "e", "n", "t", " ", "r", "e", "c",
    "e", "i", "v", "e", "d", " ", "0", " ", "1", "0", ".", "0", "0", " ",
    "C", "R">>
IciciLineRowInner == <<"0", "5", "/", "0", "8", "/", "2", "0", "2", "5", " ",
    "1", "1", "7", " ", "E", "M", "I", " ", "3", " ", "1", "0", "0", ".",
    "0", "0", " ", "f", "e", "e", " ", "0", " ", "1", "0", ".", "0", "0",
    " ", "C", "R">>
IciciLineNoCode == <<"1", "0", "/", "0", "8", "/", "2", "0", "2", "5", " ",
    "1", "1", "7", "7", "0", "9", "5", "5", "8", "5", "6", " ", "M", "y",
    "n", "t", "r", "a", " ", "5", ",", "5", "5", "2", ".", "3", "6">>
IciciLineOther == <<"T", "h", "a", "n", "k", " ", "y", "o", "u">>
IciciLineBlank == <<" ">>

IciciLineCardOther == <<"4", "3", "7", "5", "X", "X", "X", "X", "X", "X",
    "X", "X", "1", "0", "0", "3">>

IciciLines == {IciciLineCard, IciciLineCardOther, IciciLineRowCR, IciciLineRow, IciciLineRowBbps,
               IciciLineRowInner, IciciLineNoCode, IciciLineOther, IciciLineBlank}

MaxIciciLines == 3    \* lines read in one parse
MaxIciciPages == 2    \* pages of the PDF

IciciIdle ==
    /\ iciciPc = "idle" /\ iciciPageNum = 0 /\ iciciInPage = FALSE /\ iciciCount = 0
    /\ iciciLine = None /\ iciciEmittedBefore = 0 /\ iciciCardBefore = None
    /\ iciciCurrentCardNumber = None /\ iciciTransactions = <<>>

\* parse(filePath) up to the first page, the PDF opened with its password
IciciStart ==
    /\ iciciPc = "pages" /\ iciciPageNum = 0 /\ iciciInPage = FALSE /\ iciciCount = 0
    /\ iciciLine = None /\ iciciEmittedBefore = 0 /\ iciciCardBefore = None
    /\ iciciCurrentCardNumber = None /\ iciciTransactions = <<>>

\* the next page: one with no text is skipped, one with text gives its lines
IciciNextPage(hasText) ==
    /\ iciciPc = "pages" /\ iciciPageNum < MaxIciciPages
    /\ iciciPageNum' = iciciPageNum + 1
    /\ iciciInPage' = hasText
    /\ UNCHANGED <<iciciPc, iciciCount, iciciLine, iciciEmittedBefore,
                   iciciCardBefore, iciciCurrentCardNumber, iciciTransactions>>

\* lines 54-55: currentCardNumber after a card-number line
IciciCardKeptFirst(line, current) ==
    IF current = None THEN Some(Strip(line)) ELSE current
IciciCardAfter(line, current) == Some(Strip(line))

\* one turn of "for line in lines" on the raw line rawLine
IciciReadLine(rawLine) ==
    LET line == Strip(rawLine)
    IN  /\ iciciPc = "pages" /\ iciciInPage /\ iciciCount < MaxIciciLines
        /\ iciciCount' = iciciCount + 1
        /\ iciciLine' = Some(rawLine)
        /\ iciciEmittedBefore' = Len(iciciTransactions)
        /\ iciciCardBefore' = iciciCurrentCardNumber
        /\ IF line = <<>>
           THEN UNCHANGED <<iciciCurrentCardNumber, iciciTransactions>>
           ELSE IF IciciCardMatch(line)
           THEN /\ iciciCurrentCardNumber' = IciciCardAfter(line, iciciCurrentCardNumber)
                /\ UNCHANGED iciciTransactions
           ELSE /\ iciciTransactions' =
                       IF IciciTxMatch(line) /\ iciciCurrentCardNumber # None
                       THEN Append(iciciTransactions,
                                   IciciTransaction(line, iciciCurrentCardNumber))
                       ELSE iciciTransactions
                /\ UNCHANGED iciciCurrentCardNumber
        /\ UNCHANGED <<iciciPc, iciciPageNum, iciciInPage>>

\* after the last page: return transactions, rewardSummaries
IciciFinish ==
    /\ iciciPc = "pages"
    /\ iciciPc' = "done"
    /\ iciciInPage' = FALSE
    /\ UNCHANGED <<iciciPageNum, iciciCount, iciciLine, iciciEmittedBefore,
                   iciciCardBefore, iciciCurrentCardNumber, iciciTransactions>>

\* the second element of what parse returns: never appended to
IciciRewardSummaries == <<>>

(***************************************************************************)
(* parsers/auParser.py, parsers/parseAuRewards.py                          *)
(*                                                                         *)
(* parse reads the lines of every page into all_text and then walks them;  *)
(* here each line is walked as it is read, and what was built is returned  *)
(* only if no page and no line raised.  The rupee sign is RupeeSign.       *)
(***************************************************************************)
RupeeSign == "$"
TextAuStatement == <<"S", "t", "a", "t", "e", "m", "e", "n", "t", " ", "f",
    "o", "r", " ", "y", "o", "u", "r", " ", "c", "r", "e", "d", "i", "t",
    " ", "c", "a", "r", "d", " ", "e", "n", "d", "i", "n", "g", " ", "w",
    "i", "t", "h">>
TextHello == <<"H", "e", "l", "l", "o", ",", " ">>
TextHelloComma == <<"H", "e", "l", "l", "o", ",">>
TextYourTransactions == <<"Y", "o", "u", "r", " ", "T", "r", "a", "n", "s",
    "a", "c", "t", "i", "o", "n", "s">>
TextDr == <<"D", "r">>
TextCr == <<"C", "r">>
TextRP == <<"R", "P">>
TextAuRewards == <<"R", "e", "w", "a", "r", "d", " ", "P", "o", "i", "n",
    "t", "s", " ", "y", "o", "u", " ", "h", "a", "v", "e", " ", "e", "a",
    "r", "n", "e", "d", " ", "t", "h", "i", "s", " ", "m", "o", "n", "t",
    "h">>
TextFuelSurcharge == <<"F", "u", "e", "l", " ", "S", "u", "r", "c", "h", "a",
    "r", "g", "e">>
TextPage == <<"P", "a", "g", "e", " ">>
TextOpeningBalance == <<"O", "p", "e", "n", "i", "n", "g", " ", "b", "a",
    "l", "a", "n", "c", "e">>
TextEarnedPlus == <<"E", "a", "r", "n", "e", "d", " ", "+">>
TextBonusPoints == <<"B", "o", "n", "u", "s", " ", "P", "o", "i", "n", "t",
    "s">>
TextLapsed == <<"L", "a", "p", "s", "e", "d">>
TextRedeemed == <<"R", "e", "d", "e", "e", "m", "e", "d">>
TextTotalRewardPoints == <<"T", "o", "t", "a", "l", " ", "r", "e", "w", "a",
    "r", "d", " ", "p", "o", "i", "n", "t", "s">>

\* s.replace(sub, "")
RECURSIVE RemoveText(_, _)
RemoveText(s, sub) ==
    IF Len(s) < Len(sub) \/ Len(sub) = 0 THEN s
    ELSE IF SubSeq(s, 1, Len(sub)) = sub
    THEN RemoveText(SubSeq(s, Len(sub) + 1, Len(s)), sub)
    ELSE <<Head(s)>> \o RemoveText(Tail(s), sub)

EndsWith(s, suffix) ==
    Len(suffix) <= Len(s) /\ SubSeq(s, Len(s) - Len(suffix) + 1, Len(s)) = suffix

\* s.strip("()")
RECURSIVE StripParens(_)
StripParens(s) ==
    IF Len(s) > 0 /\ Head(s) \in {"(", ")"} THEN StripParens(Tail(s))
    ELSE IF Len(s) > 0 /\ s[Len(s)] \in {"(", ")"}
    THEN StripParens(SubSeq(s, 1, Len(s) - 1))
    ELSE s

\* extractInt(line): re.search(r"(\d[\d,]*)", line), commas removed
ExtractInt(line) ==
    LET at == {i \in 1..Len(line) : line[i] \in Digits}
    IN  IF at = {} THEN None
        ELSE LET first == CHOOSE i \in at : \A j \in at : i <= j
                 last == CHOOSE k \in first..Len(line) :
                             /\ \A i \in first..k : line[i] \in Digits \cup {","}
                             /\ k < Len(line) => line[k + 1] \notin Digits \cup {","}
             IN  Some(NatOf(RemoveChar(SubSeq(line, first, last), ",")))

\* current_txn = {}: a key that is not set is None
AuEmptyTxn ==
    [description |-> None, index |-> None, amount |-> None, date |-> None,
     type |-> None, rewardPoints |-> None]

AuStateAtStart ==
    [in_txn |-> FALSE, cardHolder |-> None, cardNumber |-> None,
     statementDate |-> None, current_txn |-> AuEmptyTxn, transactions |-> <<>>,
     raised |-> FALSE]

\* the first word that ends with "RP", or None
AuRpWord(parts) ==
    LET at == {i \in 1..Len(parts) : EndsWith(parts[i], TextRP)}
    IN  IF at = {} THEN None ELSE Some(parts[CHOOSE i \in at : \A j \in at : i <= j])

\* "Dr" if "Dr" in parts else "Cr"
AuTypeAlwaysDr(parts) == TextDr
AuType(parts) ==
    IF \E i \in 1..Len(parts) : parts[i] = TextDr THEN TextDr ELSE TextCr

\* lines 43-86 of parse for one line of all_text
AuLineStep(st, rawLine) ==
    LET line == Strip(rawLine)
        parts == Split(line)
    IN  IF line = <<>> THEN st
        ELSE IF StartsWith(line, TextAuStatement)
        THEN [st EXCEPT !.cardNumber = IF Len(parts) > 6 THEN Some(StripParens(parts[7]))
                                       ELSE None,
                        !.statementDate =
                            Some(Join(SubSeq(parts, IF Len(parts) > 3 THEN Len(parts) - 2 ELSE 1,
                                             Len(parts))))]
        ELSE IF StartsWith(line, TextHello)
        THEN [st EXCEPT !.cardHolder = Some(Strip(RemoveText(line, TextHelloComma)))]
        ELSE IF StartsWith(line, TextYourTransactions)
        THEN [st EXCEPT !.in_txn = TRUE]
        ELSE IF ~st.in_txn THEN st
        ELSE IF st.current_txn = AuEmptyTxn
        THEN [st EXCEPT !.current_txn.description = Some(line)]
        ELSE IF \E i \in 1..Len(line) : line[i] = RupeeSign
        THEN IF Len(parts) < 2 THEN [st EXCEPT !.raised = TRUE]     \* parts[1]: IndexError
             ELSE [st EXCEPT !.current_txn.index = Some(parts[1]),
                             !.current_txn.amount =
                                 Some(RemoveChar(RemoveChar(parts[2], RupeeSign), ","))]
        ELSE IF Contains(line, TextDr) \/ Contains(line, TextCr)
        THEN LET rp == AuRpWord(parts)
                 txn == [st.current_txn EXCEPT
                            !.date = Some(Join(SubSeq(parts, 1, IF Len(parts) < 2 THEN Len(parts) ELSE 2))),
                            !.type = Some(AuType(parts)),
                            !.rewardPoints = IF rp = None THEN None
                                             ELSE Some(RemoveText(rp[1], TextRP))]
             IN  [st EXCEPT !.transactions = Append(st.transactions, txn),
                            !.current_txn = AuEmptyTxn]
        ELSE st

AuRewardsAtStart ==
    [in_section |-> FALSE, stopped |-> FALSE, earned |-> 0, bonus |-> 0,
     openingBalance |-> None, redeemed |-> None, adjustedLapsed |-> None,
     closingBalance |-> None]

\* lines 38-74 of parseAuRewards for one line
AuRewardsStep(rw, rawLine) ==
    LET line == Strip(rawLine)
        val == ExtractInt(line)
    IN  IF rw.stopped \/ line = <<>> THEN rw
        ELSE IF StartsWith(line, TextAuRewards) THEN [rw EXCEPT !.in_section = TRUE]
        ELSE IF ~rw.in_section THEN rw
        ELSE IF StartsWith(line, TextFuelSurcharge) \/ StartsWith(line, TextPage)
        THEN [rw EXCEPT !.stopped = TRUE]
        ELSE IF StartsWith(line, TextOpeningBalance) THEN [rw EXCEPT !.openingBalance = val]
        ELSE IF StartsWith(line, TextEarnedPlus)
        THEN (IF val # None THEN [rw EXCEPT !.earned = val[1]] ELSE rw)
        ELSE IF StartsWith(line, TextBonusPoints)
        THEN (IF val # None THEN [rw EXCEPT !.bonus = val[1]] ELSE rw)
        ELSE IF StartsWith(line, TextLapsed) THEN [rw EXCEPT !.adjustedLapsed = val]
        ELSE IF StartsWith(line, TextRedeemed) THEN [rw EXCEPT !.redeemed = val]
        ELSE IF StartsWith(line, TextTotalRewardPoints) THEN [rw EXCEPT !.closingBalance = val]
        ELSE rw

\* lines 76-85 of parseAuRewards and 89-91 of parse: the summaries appended
AuRewardsResult(rw, statementDate, cardNumber, cardHolder) ==
    IF rw.closingBalance = None THEN <<>>
    ELSE <<[statementDate  |-> statementDate,
            cardNumber     |-> cardNumber,
            cardHolderName |-> cardHolder,
            openingBalance |-> rw.openingBalance,
            earned         |-> IF rw.earned # 0 \/ rw.bonus # 0
                               THEN Some(rw.earned + rw.bonus) ELSE None,
            redeemed       |-> rw.redeemed,
            adjustedLapsed |-> rw.adjustedLapsed,
            closingBalance |-> rw.closingBalance,
            parserUsed     |-> Some("auParser"),
            importId       |-> None]>>

\* ---- the lines the AU parser is run on
AuLineStatement == <<"S", "t", "a", "t", "e", "m", "e", "n", "t", " ", "f",
    "o", "r", " ", "y", "o", "u", "r", " ", "c", "r", "e", "d", "i", "t",
    " ", "c", "a", "r", "d", " ", "e", "n", "d", "i", "n", "g", " ", "w",
    "i", "t", "h", " ", "1", "2", "3", "4">>
AuLineHello == <<"H", "e", "l", "l", "o", ",", " ", "Y", "a", "y", "i", "n">>
AuLineYourTransactions == <<"Y", "o", "u", "r", " ", "T", "r", "a", "n", "s",
    "a", "c", "t", "i", "o", "n", "s">>
AuLineDescription == <<"F", "u", "e", "l", " ", "S", "t", "a", "t", "i", "o",
    "n">>
AuLineAmount == <<"1", "9", " ", "$", "4", ",", "0", "0", "0", ".", "0", "0">>
AuLineAmountOnly == <<"$", "2", "5", "0", ".", "0", "0">>
AuLineDr == <<"1", "2", " ", "A", "u", "g", " ", "D", "r", " ", "1", "0",
    "R", "P">>
AuLineCr == <<"1", "3", " ", "A", "u", "g", " ", "C", "r">>
AuLineDrBadRp == <<"1", "4", " ", "A", "u", "g", " ", "D", "r", " ", "1",
    ".", "5", "R", "P">>
AuLineRewards == <<"R", "e", "w", "a", "r", "d", " ", "P", "o", "i", "n",
    "t", "s", " ", "y", "o", "u", " ", "h", "a", "v", "e", " ", "e", "a",
    "r", "n", "e", "d", " ", "t", "h", "i", "s", " ", "m", "o", "n", "t",
    "h">>
AuLineTotal == <<"T", "o", "t", "a", "l", " ", "r", "e", "w", "a", "r", "d",
    " ", "p", "o", "i", "n", "t", "s", " ", "1", "5">>
AuLineBlank == <<" ">>

AuLineStatementFull == <<"S", "t", "a", "t", "e", "m", "e", "n", "t", " ",
    "f", "o", "r", " ", "y", "o", "u", "r", " ", "c", "r", "e", "d", "i",
    "t", " ", "c", "a", "r", "d", " ", "e", "n", "d", "i", "n", "g", " ",
    "w", "i", "t", "h", " ", "(", "1", "2", "3", "4", ")", " ", "1", "2",
    " ", "A", "u", "g", " ", "2", "0", "2", "5">>

AuLines == {AuLineStatement, AuLineStatementFull, AuLineHello, AuLineYourTransactions, AuLineDescription,
            AuLineAmount, AuLineAmountOnly, AuLineDr, AuLineCr, AuLineDrBadRp,
            AuLineRewards, AuLineTotal, AuLineBlank}

MaxAuLines == 4    \* lines read in one parse
MaxAuPages == 2    \* pages of the PDF

AuIdle ==
    /\ auPc = "idle" /\ auPageNum = 0 /\ auInPage = FALSE /\ auCount = 0
    /\ auLine = None /\ auState = AuStateAtStart /\ auRewards = AuRewardsAtStart
    /\ auTransactions = <<>> /\ auRewardSummaries = <<>>

\* parse(filePath), the PDF opened with its password
AuStart ==
    /\ auPc = "pages" /\ auPageNum = 0 /\ auInPage = FALSE /\ auCount = 0
    /\ auLine = None /\ auState = AuStateAtStart /\ auRewards = AuRewardsAtStart
    /\ auTransactions = <<>> /\ auRewardSummaries = <<>>

\* all_text.extend(page.extract_text().splitlines()) for the next page:
\* text "none" is extract_text() returning None, which has no splitlines
AuNextPage(text) ==
    /\ auPc = "pages" /\ auPageNum < MaxAuPages
    /\ auPageNum' = auPageNum + 1
    /\ auPc' = IF text = "none" THEN "raised" ELSE "pages"
    /\ auInPage' = (text = "lines")
    /\ UNCHANGED <<auCount, auLine, auState, auRewards, auTransactions,
                   auRewardSummaries>>

\* one line of the page, and its turn in the loops over all_text
AuReadLine(rawLine) ==
    LET st == AuLineStep(auState, rawLine)
    IN  /\ auPc = "pages" /\ auInPage /\ auCount < MaxAuLines
        /\ ~auState.raised
        /\ auCount' = auCount + 1
        /\ auLine' = Some(rawLine)
        /\ auState' = st
        /\ auRewards' = AuRewardsStep(auRewards, rawLine)
        /\ UNCHANGED <<auPc, auPageNum, auInPage, auTransactions, auRewardSummaries>>

\* after the last page: the IndexError of the line loop if there was one,
\* else parseAuRewards and return transactions, rewardSummaries
AuFinish ==
    /\ auPc = "pages"
    /\ auInPage' = FALSE
    /\ IF auState.raised
       THEN /\ auPc' = "raised"
            /\ UNCHANGED <<auTransactions, auRewardSummaries>>
       ELSE /\ auPc' = "done"
            /\ auTransactions' = auState.transactions
            /\ auRewardSummaries' =
                   AuRewardsResult(auRewards, auState.statementDate,
                                   auState.cardNumber, auState.cardHolder)
    /\ UNCHANGED <<auPageNum, auCount, auLine, auState, auRewards>>

(***************************************************************************)
(* parsers/genericPdfParser.py                                             *)
(***************************************************************************)
\* \d{2}-\d{2}-\d{4} followed by white space: the whole word
GenericIsDate(t) ==
    /\ Len(t) = 10
    /\ \A i \in {1, 2, 4, 5, 7, 8, 9, 10} : t[i] \in Digits
    /\ t[3] = "-" /\ t[6] = "-"

\* -?\d+\.\d{2} at the start of word t: the length matched, 0 for no match
GenericAmountLen(t) ==
    LET sign == IF Len(t) > 0 /\ t[1] = "-" THEN 1 ELSE 0
        run == CHOOSE k \in sign..Len(t) :
                   /\ \A i \in (sign + 1)..k : t[i] \in Digits
                   /\ k < Len(t) => t[k + 1] \notin Digits
    IN  IF /\ run > sign /\ run + 3 <= Len(t) /\ t[run + 1] = "."
           /\ t[run + 2] \in Digits /\ t[run + 3] \in Digits
        THEN run + 3 ELSE 0

\* float(amount) of the text matched by -?\d+\.\d{2}, in hundredths
GenericAmount(a) == IF a[1] = "-" THEN 0 - AmountOf(Tail(a)) ELSE AmountOf(a)

\* the words that can hold group 3 of
\* re.match(r"(\d{2}-\d{2}-\d{4})\s+(.+)\s+(-?\d+\.\d{2})", line)
GenericSplits(t) == {k \in 3..Len(t) : GenericAmountLen(t[k]) > 0}
GenericMatch(line) ==
    LET t == Split(line)
    IN  Len(t) >= 3 /\ GenericIsDate(t[1]) /\ GenericSplits(t) # {}

\* the dict built for a matched line; (.+) is greedy: the last split
GenericTransaction(line) ==
    LET t == Split(line)
        k == CHOOSE k \in GenericSplits(t) : \A j \in GenericSplits(t) : j <= k
    IN  [date        |-> Some(t[1]),
         description |-> Strip(Join(SubSeq(t, 2, k - 1))),
         merchant    |-> Some(t[2]),
         amount      |-> GenericAmount(SubSeq(t[k], 1, GenericAmountLen(t[k]))),
         cardNumber  |-> None,
         sourceBank  |-> Some("Unknown"),
         category    |-> None,
         subCategory |-> None,
         parserUsed  |-> Some("genericPdfParser"),
         importId    |-> None]

\* parse(filePath) on the lines of the pages that have text, in order
RECURSIVE GenericParse(_)
GenericParse(lines) ==
    IF Len(lines) = 0 THEN <<>>
    ELSE (IF GenericMatch(Head(lines)) THEN <<GenericTransaction(Head(lines))>> ELSE <<>>)
             \o GenericParse(Tail(lines))

\* ---- the lines the generic parser is run on
GenericLineCoffee == <<"0", "1", "-", "0", "8", "-", "2", "0", "2", "5", " ",
    "C", "o", "f", "f", "e", "e", " ", "1", "2", "0", ".", "0", "0">>
GenericLineRefund == <<"0", "2", "-", "0", "8", "-", "2", "0", "2", "5", " ",
    "U", "P", "I", " ", "r", "e", "f", "u", "n", "d", " ", "-", "5", "0",
    ".", "0", "0">>
GenericLineOther == <<"T", "h", "a", "n", "k", " ", "y", "o", "u">>
GenericLines == {GenericLineCoffee, GenericLineRefund, GenericLineOther}

(***************************************************************************)
(* parsers/hdfcParser.py                                                   *)
(***************************************************************************)
TextDomesticTransactions == <<"D", "O", "M", "E", "S", "T", "I", "C", " ",
    "T", "R", "A", "N", "S", "A", "C", "T", "I", "O", "N", "S">>
TextInternationalTransactions == <<"I", "N", "T", "E", "R", "N", "A", "T",
    "I", "O", "N", "A", "L", " ", "T", "R", "A", "N", "S", "A", "C", "T",
    "I", "O", "N", "S">>
TextRewardPoints == <<"R", "E", "W", "A", "R", "D", " ", "P", "O", "I", "N",
    "T", "S">>
TextStatement == <<"S", "T", "A", "T", "E", "M", "E", "N", "T">>
TextPaymentDue == <<"P", "A", "Y", "M", "E", "N", "T", " ", "D", "U", "E">>
TextCreditSummary == <<"C", "R", "E", "D", "I", "T", " ", "S", "U", "M", "M",
    "A", "R", "Y">>
TextPointsEarnedUpper == <<"P", "O", "I", "N", "T", "S", " ", "E", "A", "R",
    "N", "E", "D">>
TextTotalCreditLimit == <<"T", "O", "T", "A", "L", " ", "C", "R", "E", "D",
    "I", "T", " ", "L", "I", "M", "I", "T">>
TextImportantInformation == <<"I", "M", "P", "O", "R", "T", "A", "N", "T",
    " ", "I", "N", "F", "O", "R", "M", "A", "T", "I", "O", "N">>
TextDetails == <<"D", "E", "T", "A", "I", "L", "S">>
TextNewDelhi == <<"N", "E", "W", " ", "D", "E", "L", "H", "I">>
TextPointsEarned == <<"P", "o", "i", "n", "t", "s", " ", "E", "a", "r", "n",
    "e", "d">>
TextPlusC == <<"+", " ", "C">>
TextPrimaryCardholder == <<"P", "R", "I", "M", "A", "R", "Y", " ", "C", "A",
    "R", "D", "H", "O", "L", "D", "E", "R">>
TextStatementWord == <<"S", "t", "a", "t", "e", "m", "e", "n", "t">>
TextBillingWord == <<"B", "i", "l", "l", "i", "n", "g">>
TextDateWord == <<"D", "a", "t", "e">>
EXCLUDE_HEADERS ==
    {TextDomesticTransactions, TextInternationalTransactions, TextRewardPoints,
     TextStatement, TextPaymentDue, TextCreditSummary, TextPointsEarnedUpper,
     TextTotalCreditLimit, TextImportantInformation, TextDetails, TextNewDelhi}

\* str.isupper(): a cased character, and no lower-case one
IsUpper(s) ==
    /\ \E i \in 1..Len(s) : s[i] \in UpperLetters
    /\ \A i \in 1..Len(s) : s[i] \notin LowerLetters

\* str.istitle(): a cased character, upper case only after an uncased
\* character, lower case only after a cased one
IsTitle(s) ==
    /\ \E i \in 1..Len(s) : s[i] \in UpperLetters \cup LowerLetters
    /\ \A i \in 1..Len(s) :
          /\ s[i] \in UpperLetters =>
                (i = 1 \/ s[i - 1] \notin UpperLetters \cup LowerLetters)
          /\ s[i] \in LowerLetters =>
                (i > 1 /\ s[i - 1] \in UpperLetters \cup LowerLetters)

\* the characters looks_like_cardholder refuses besides the digits
HdfcRefused == {"/", ":", "|"}

\* looks_like_cardholder(line)
looks_like_cardholder(line) ==
    LET clean == Strip(line)
    IN  /\ Upper(clean) \notin EXCLUDE_HEADERS
        /\ \A i \in 1..Len(clean) : clean[i] \notin HdfcRefused \cup Digits
        /\ (IsUpper(clean) \/ IsTitle(clean))
        /\ Len(Split(clean)) <= 4

\* the length of the longest run of characters of class that starts at s[q]
RunLen(s, q, class) ==
    CHOOSE k \in 0..(Len(s) + 1 - q) :
        /\ \A i \in q..(q + k - 1) : s[i] \in class
        /\ q + k <= Len(s) => s[q + k] \notin class

\* [\d,]+\.\d{2} at s[q]: the length of the [\d,]+ part, 0 for no match
HdfcAmountRun(s, q) ==
    LET run == IF q <= Len(s) THEN RunLen(s, q, Digits \cup {","}) ELSE 0
    IN  IF /\ run >= 1 /\ q + run + 2 <= Len(s) /\ s[q + run] = "."
           /\ s[q + run + 1] \in Digits /\ s[q + run + 2] \in Digits
        THEN run ELSE 0

\* re.match(r"(\d{2}/\d{2}/\d{4}).*?C\s([\d,]+\.\d{2})", line): the places of
\* a C that can end .*?, and whether there is one
HdfcTxEnds(line) ==
    {p \in 11..(Len(line) - 1) :
        line[p] = "C" /\ line[p + 1] = " " /\ HdfcAmountRun(line, p + 2) > 0}
HdfcTxMatch(line) ==
    /\ Len(line) >= 10
    /\ \A i \in {1, 2, 4, 5, 7, 8, 9, 10} : line[i] \in Digits
    /\ line[3] = "/" /\ line[6] = "/"
    /\ HdfcTxEnds(line) # {}

\* float(txMatch.group(2).replace(",", "")), in hundredths: .*? is lazy, the
\* first C that fits
HdfcAmount(line) ==
    LET p == CHOOSE p \in HdfcTxEnds(line) : \A r \in HdfcTxEnds(line) : p <= r
        run == HdfcAmountRun(line, p + 2)
    IN  100 * NatOf(RemoveChar(SubSeq(line, p + 2, p + 1 + run), ","))
           + NatOf(SubSeq(line, p + run + 3, p + run + 4))

\* re.search(r"\+\s*(\d+)\s*C\s", line): None, or int(group(1))
HdfcRewardPoints(line) ==
    LET at(p) == LET d == p + 1 + RunLen(line, p + 1, {" "})
                     n == IF d <= Len(line) THEN RunLen(line, d, Digits) ELSE 0
                     c == d + n + (IF d + n <= Len(line)
                                   THEN RunLen(line, d + n, {" "}) ELSE 0)
                 IN  [ok |-> /\ n >= 1 /\ c + 1 <= Len(line)
                             /\ line[c] = "C" /\ line[c + 1] = " ",
                      points |-> NatOf(SubSeq(line, d, d + n - 1))]
        hits == {p \in 1..Len(line) : line[p] = "+" /\ at(p).ok}
    IN  IF hits = {} THEN None
        ELSE Some(at(CHOOSE p \in hits : \A r \in hits : p <= r).points)

\* line.split("|")[1].strip() if "|" in line else line
HdfcDescription(line) ==
    LET bars == {i \in 1..Len(line) : line[i] = "|"}
        first == CHOOSE i \in bars : \A j \in bars : i <= j
        later == {i \in bars : i > first}
        next == IF later = {} THEN Len(line) + 1
                ELSE CHOOSE i \in later : \A j \in later : i <= j
    IN  IF bars = {} THEN line ELSE Strip(SubSeq(line, first + 1, next - 1))

\* re.search(r"(Statement|Billing) Date\s+(\d{1,2}\s\w+,\s\d{4})", line) on
\* the words of the line: None, or group(2)
HdfcStatementDate(line) ==
    LET t == Split(line)
        hits == {i \in 1..(Len(t) - 4) :
                    /\ EndsWith(t[i], TextStatementWord) \/ EndsWith(t[i], TextBillingWord)
                    /\ t[i + 1] = TextDateWord
                    /\ Len(t[i + 2]) \in {1, 2} /\ IsDigitStr(t[i + 2])
                    /\ Len(t[i + 3]) >= 2 /\ t[i + 3][Len(t[i + 3])] = ","
                    /\ \A k \in 1..(Len(t[i + 3]) - 1) : t[i + 3][k] \in WordChars
                    /\ Len(t[i + 4]) >= 4 /\ IsDigitStr(SubSeq(t[i + 4], 1, 4))}
        i == CHOOSE i \in hits : \A j \in hits : i <= j
    IN  IF hits = {} THEN None
        ELSE Some(t[i + 2] \o <<" ">> \o t[i + 3] \o <<" ">> \o SubSeq(t[i + 4], 1, 4))

\* \d{1,3}(,\d{3})* in full
HdfcIsGrouped(w) ==
    LET head == RunLen(w, 1, Digits)
    IN  /\ head \in 1..3
        /\ (Len(w) - head) % 4 = 0
        /\ \A i \in (head + 1)..Len(w) :
              IF (i - head) % 4 = 1 THEN w[i] = "," ELSE w[i] \in Digits

\* the four-number line of the reward block
HdfcFourNumbers(line) ==
    Len(Split(line)) = 4 /\ \A i \in 1..4 : HdfcIsGrouped(Split(line)[i])

\* the parser's locals before the first line
HdfcStateAtStart ==
    [currentCardHolder |-> None, primaryCardHolder |-> None, statementDate |-> None,
     opening |-> None, earned |-> None, redeemed |-> None, adjusted |-> None,
     closing |-> None, transactions |-> <<>>]

\* the dict appended for a transaction line (lines 113-145)
HdfcTransaction(line, currentCardHolder, statementDate) ==
    [date            |-> Some(SubSeq(line, 1, 10)),
     description     |-> HdfcDescription(line),
     amount          |-> HdfcAmount(line),
     transactionType |-> IF Contains(line, TextPlusC) THEN "CREDIT" ELSE "DEBIT",
     rewardPoints    |-> HdfcRewardPoints(line),
     cardNumber      |-> None,
     cardHolderName  |-> currentCardHolder,
     statementDate   |-> statementDate,
     parserUsed      |-> Some("hdfcParser"),
     importId        |-> None]

\* which upper-case line may become the primary cardholder (line 102)
HdfcTakesPrimaryAlways(line, primaryCardHolder) == IsUpper(line)
HdfcTakesPrimary(line, primaryCardHolder) ==
    IsUpper(line) /\ primaryCardHolder = None

\* one turn of "for line in text.splitlines()" (lines 88-165)
HdfcLineStep(st, rawLine) ==
    LET line == Strip(rawLine)
        stmt == IF HdfcStatementDate(line) # None THEN HdfcStatementDate(line)
                ELSE st.statementDate
        isHolder == looks_like_cardholder(line)
        primary == IF isHolder /\ HdfcTakesPrimary(line, st.primaryCardHolder)
                   THEN Some(line) ELSE st.primaryCardHolder
        current == IF isHolder THEN Some(line) ELSE st.currentCardHolder
        words == Split(line)
        first == IF Len(words) = 0 THEN None
                 ELSE IntOfStr(RemoveChar(words[1], ","))
        four == [i \in 1..4 |-> Some(NatOf(RemoveChar(words[i], ",")))]
        isEarned == Contains(line, TextPointsEarned)
        isFour == ~isEarned /\ HdfcFourNumbers(line)
    IN  [currentCardHolder |-> current,
         primaryCardHolder |-> primary,
         statementDate     |-> stmt,
         closing  |-> IF isEarned /\ first # None THEN first ELSE st.closing,
         opening  |-> IF isFour THEN four[1] ELSE st.opening,
         earned   |-> IF isFour THEN four[2] ELSE st.earned,
         redeemed |-> IF isFour THEN four[3] ELSE st.redeemed,
         adjusted |-> IF isFour THEN four[4] ELSE st.adjusted,
         transactions |-> IF HdfcTxMatch(line)
                          THEN Append(st.transactions,
                                      HdfcTransaction(line, current, stmt))
                          ELSE st.transactions]

\* line 170: all(v is not None for v in [opening, ..., closing])
HdfcClosingResolved(st) == st.closing # None
HdfcAllResolved(st) ==
    \A f \in {"opening", "earned", "redeemed", "adjusted", "closing"} : st[f] # None

\* lines 167-182: the reward summaries returned
HdfcRewardSummaries(st) ==
    IF HdfcAllResolved(st)
    THEN <<[statementDate  |-> st.statementDate,
            cardNumber     |-> None,
            cardHolderName |-> IF st.primaryCardHolder = None
                               THEN Some(TextPrimaryCardholder)
                               ELSE st.primaryCardHolder,
            openingBalance |-> st.opening,
            earned         |-> st.earned,
            redeemed       |-> st.redeemed,
            adjustedLapsed |-> st.adjusted,
            closingBalance |-> st.closing,
            parserUsed     |-> Some("hdfcParser"),
            importId       |-> None]>>
    ELSE <<>>

\* ---- the lines the HDFC parser is run on
HdfcLinePrimary == <<"Y", "A", "Y", "I", "N", " ", "V", "A", "S", "H", "I",
    "S", "T">>
HdfcLineOtherCaps == <<"R", "I", "Y", "A", " ", "S", "H", "A", "R", "M", "A">>
HdfcLineAddOn == <<"R", "i", "y", "a", " ", "S", "h", "a", "r", "m", "a">>
HdfcLineHeader == <<"R", "E", "W", "A", "R", "D", " ", "P", "O", "I", "N",
    "T", "S">>
HdfcLinePipe == <<"G", "O", "L", "D", " ", "|", " ", "P", "L", "A", "T", "I",
    "N", "U", "M">>
HdfcLineDate == <<"S", "t", "a", "t", "e", "m", "e", "n", "t", " ", "D", "a",
    "t", "e", " ", "1", "2", " ", "A", "u", "g", ",", " ", "2", "0", "2",
    "5">>
HdfcLineTx == <<"0", "5", "/", "0", "8", "/", "2", "0", "2", "5", " ", "|",
    " ", "A", "m", "a", "z", "o", "n", " ", "P", "a", "y", " ", "p", "u",
    "r", "c", "h", "a", "s", "e", " ", "+", " ", "2", "0", " ", "C", " ",
    "1", ",", "2", "0", "0", ".", "0", "0">>
HdfcLineCredit == <<"0", "6", "/", "0", "8", "/", "2", "0", "2", "5", " ",
    "|", " ", "P", "A", "Y", "M", "E", "N", "T", " ", "R", "E", "C", "E",
    "I", "V", "E", "D", " ", "+", " ", "C", " ", "5", ",", "0", "0", "0",
    ".", "0", "0">>
HdfcLineEarned == <<"1", "2", "0", " ", "P", "o", "i", "n", "t", "s", " ",
    "E", "a", "r", "n", "e", "d">>
HdfcLineEarnedBare == <<"P", "o", "i", "n", "t", "s", " ", "E", "a", "r",
    "n", "e", "d">>
HdfcLineFour == <<"1", "0", "0", " ", "2", "0", " ", "0", " ", "0">>
HdfcLineFourBig == <<"1", ",", "1", "0", "0", " ", "2", "0", " ", "1", ",",
    "0", "0", "0", " ", "0">>
HdfcLines == {HdfcLinePrimary, HdfcLineOtherCaps, HdfcLineAddOn,
              HdfcLineHeader, HdfcLinePipe, HdfcLineDate,
              HdfcLineTx, HdfcLineCredit, HdfcLineEarned,
              HdfcLineEarnedBare, HdfcLineFour, HdfcLineFourBig}
MaxHdfcLines == 3   \* lines read in one parse
MaxHdfcPages == 2   \* pages of the statement

HdfcIdle ==
    /\ hdfcPc = "idle" /\ hdfcPageNum = 0 /\ hdfcInPage = FALSE /\ hdfcCount = 0
    /\ hdfcLine = None /\ hdfcState = HdfcStateAtStart /\ hdfcBefore = HdfcStateAtStart
    /\ hdfcRewardSummaries = <<>>

\* parse(filePath) up to the first page
HdfcStart ==
    /\ hdfcPc = "pages" /\ hdfcPageNum = 0 /\ hdfcInPage = FALSE /\ hdfcCount = 0
    /\ hdfcLine = None /\ hdfcState = HdfcStateAtStart /\ hdfcBefore = HdfcStateAtStart
    /\ hdfcRewardSummaries = <<>>

\* the next page: one with no text is skipped, one with text gives its lines
HdfcNextPage(hasText) ==
    /\ hdfcPc = "pages" /\ hdfcPageNum < MaxHdfcPages
    /\ hdfcPageNum' = hdfcPageNum + 1
    /\ hdfcInPage' = hasText
    /\ UNCHANGED <<hdfcPc, hdfcCount, hdfcLine, hdfcState, hdfcBefore,
                   hdfcRewardSummaries>>

\* one line of the page
HdfcReadLine(rawLine) ==
    /\ hdfcPc = "pages" /\ hdfcInPage /\ hdfcCount < MaxHdfcLines
    /\ hdfcCount' = hdfcCount + 1
    /\ hdfcLine' = Some(rawLine)
    /\ hdfcBefore' = hdfcState
    /\ hdfcState' = HdfcLineStep(hdfcState, rawLine)
    /\ UNCHANGED <<hdfcPc, hdfcPageNum, hdfcInPage, hdfcRewardSummaries>>

\* after the last page: the fallback name, the summary, return
HdfcFinish ==
    /\ hdfcPc = "pages"
    /\ hdfcPc' = "done"
    /\ hdfcInPage' = FALSE
    /\ hdfcRewardSummaries' = HdfcRewardSummaries(hdfcState)
    /\ UNCHANGED <<hdfcPageNum, hdfcCount, hdfcLine, hdfcState, hdfcBefore>>

(***************************************************************************)
(* The records the parsers hand to the store.  A field a parser leaves out *)
(* of its dict is None here, which is what dict.get returns for it.        *)
(***************************************************************************)
Tx(date, desc, amount, type, rp, card, holder, parser) ==
    [date |-> date, description |-> desc, amount |-> amount,
     transactionType |-> type, rewardPoints |-> rp, cardNumber |-> card,
     cardHolderName |-> holder, parserUsed |-> parser]

\* sbiParser: every field set
TxSbiDebit == Tx(Some("2025-08-12"), Some("UPI-Swiggy Instamart"), Some(32600),
                 Some("DEBIT"), None, Some("XXXX XXXX XXXX XX51"),
                 Some("YAYIN VASHIST"), Some("sbiParser"))
TxSbiCredit == Tx(Some("2025-08-12"), Some("UPI-Swiggy Instamart"), Some(32600),
                  Some("CREDIT"), None, Some("XXXX XXXX XXXX XX51"),
                  Some("YAYIN VASHIST"), Some("sbiParser"))
\* sbiParser, strptime failed: date None
TxSbiNoDate == Tx(None, Some("UPI-Swiggy Instamart"), Some(32600),
                  Some("DEBIT"), None, Some("XXXX XXXX XXXX XX51"),
                  Some("YAYIN VASHIST"), Some("sbiParser"))
\* iciciParser: cardHolderName is always None
TxIcici == Tx(Some("10/08/2025"), Some("Myntra"), Some(555236),
              Some("CREDIT"), None, Some("6528XXXXXXXX1005"),
              None, Some("iciciParser"))
\* hdfcParser: a row of amount 0.00 under a cardholder line
TxHdfcZero == Tx(Some("05/08/2025"), Some("EMI WAIVER"), Some(0),
                 Some("DEBIT"), None, Some("HDFC-UNKNOWN"),
                 Some("YAYIN VASHIST"), Some("hdfcParser"))
\* genericPdfParser: no transactionType, no cardHolderName
TxGeneric == Tx(Some("01-08-2025"), Some("Coffee"), Some(12000),
                None, None, Some("STATEMENT.PDF-UNKNOWN"),
                None, Some("genericPdfParser"))
\* auParser: "type" instead of transactionType, no cardHolderName, no
\* parserUsed, rewardPoints the text before "RP"
TxAuBadRp == Tx(Some("12 Aug"), Some("Fuel"), Some(400000),
                None, Some(<<"1", ".", "5">>), Some("AU-UNKNOWN"),
                None, None)

TxDomain == {TxSbiDebit, TxSbiCredit, TxSbiNoDate, TxIcici, TxHdfcZero,
             TxGeneric, TxAuBadRp}

Rw(stmt, card, holder, o, e, r, a, c, parser, importId) ==
    [statementDate |-> stmt, cardNumber |-> card, cardHolderName |-> holder,
     openingBalance |-> o, earned |-> e, redeemed |-> r, adjustedLapsed |-> a,
     closingBalance |-> c, parserUsed |-> parser, importId |-> importId]

\* hdfcParser: cardNumber None, importId None
RwHdfc == Rw(Some("12 Aug, 2025"), None, Some("YAYIN VASHIST"),
             Some(100), Some(20), Some(0), Some(0), Some(120),
             Some("hdfcParser"), None)
\* hdfcParser on a statement without a statement-date line
RwHdfcNoDate == Rw(None, None, Some("PRIMARY CARDHOLDER"),
                   Some(100), Some(20), Some(0), Some(0), Some(120),
                   Some("hdfcParser"), None)
\* sbiParser's own summary: the period, the md5 import id
RwSbiRaw == Rw(Some("12 Aug 25 to 11 Sep 25"), Some("XXXX XXXX XXXX XX51"),
               Some("YAYIN VASHIST"), Some(1968), Some(158), Some(2000),
               Some(0), Some(126), Some("sbiParser"), Some("md5"))
\* sbiRewardsHelper: the period's end date, a uuid
RwSbiHelper(u) == Rw(Some("11 Sep 25"), Some("XXXX XXXX XXXX XX51"),
                     Some("YAYIN VASHIST"), Some(1968), Some(158), Some(2000),
                     Some(126), Some(0), Some("sbiParser"), Some(u))
\* parseAuRewards
RwAu == Rw(Some("11 Sep 2025"), Some("1234"), Some("Yayin"),
           Some(10), Some(5), None, None, Some(15), Some("auParser"), None)

RwDomain == {RwHdfc, RwHdfcNoDate, RwSbiRaw, RwAu} \cup {RwSbiHelper(u) : u \in Uuids}

\* a second parse of the same file: the same summaries, a uuid import id drawn anew
IsReparseOf(s2, s1) ==
    /\ Len(s2) = Len(s1)
    /\ \A i \in 1..Len(s1) :
          \/ s2[i] = s1[i]
          \/ /\ s1[i].importId # None /\ s1[i].importId[1] \in Uuids
             /\ s2[i].importId # None /\ s2[i].importId[1] \in Uuids
             /\ [s2[i] EXCEPT !.importId = None] = [s1[i] EXCEPT !.importId = None]

MaxTxLen == 2       \* longest list handed to insertTransactions
MaxTxRows == 3      \* rows of table transactions
MaxRwLen == 2       \* longest list handed to insertRewardSummary
MaxRwRows == 3      \* rows of table rewardPointsSummary

(***************************************************************************)
(* The store's calls                                                       *)
(***************************************************************************)
TxIdle ==
    /\ txTable = <<>> /\ txArg = None /\ txRet = 0
    /\ txBefore = <<>> /\ txRepeat = FALSE
RwIdle ==
    /\ rwTable = <<>> /\ rwArg = None /\ rwRet = 0
    /\ rwBefore = <<>> /\ rwRepeat = FALSE

InsertTransactions ==
    \E X \in SeqUpTo(TxDomain, MaxTxLen) :
        LET done == InsertTransactionsOn(txTable, X)
        IN  /\ Len(txTable) + Len(X) <= MaxTxRows
            /\ txTable' = done.table
            /\ txRet' = done.ret
            /\ txBefore' = txTable
            /\ txArg' = Some(X)
            /\ txRepeat' = (txArg = Some(X))

InsertRewardSummary ==
    \E S \in SeqUpTo(RwDomain, MaxRwLen) :
        LET done == InsertRewardSummaryOn(rwTable, S)
        IN  /\ Len(rwTable) + Len(S) <= MaxRwRows
            /\ rwTable' = done.table
            /\ rwRet' = done.ret
            /\ rwBefore' = rwTable
            /\ rwArg' = Some(S)
            /\ rwRepeat' = (rwArg # None /\ IsReparseOf(S, rwArg[1]))

(***************************************************************************)
(* billParser.py: parseFile, in the order of its parts.  What a parser     *)
(* reads from the PDF is chosen among the dicts that parser builds.        *)
(***************************************************************************)
\* BANK_PARSERS, in the order of the dict
BankParsers == <<"HDFC", "SBI", "ICICI", "AU">>
TextHDFC == <<"H", "D", "F", "C">>
TextSBI == <<"S", "B", "I">>
TextICICI == <<"I", "C", "I", "C", "I">>
TextAU == <<"A", "U">>
TextUnknown == <<"-", "U", "N", "K", "N", "O", "W", "N">>
BankText(bank) ==
    CASE bank = "HDFC" -> TextHDFC [] bank = "SBI" -> TextSBI
      [] bank = "ICICI" -> TextICICI [] bank = "AU" -> TextAU

\* os.path.basename(filePath).upper()
BaseNameOfWholePath(filePath) == Upper(filePath)
BaseNameOf(filePath) ==
    LET slashes == {i \in 1..Len(filePath) : filePath[i] = "/"}
        last == IF slashes = {} THEN 0
                ELSE CHOOSE i \in slashes : \A j \in slashes : j <= i
    IN  Upper(SubSeq(filePath, last + 1, Len(filePath)))

\* for bank, module in BANK_PARSERS.items(): if bank in baseName: ... break
ParserModuleFor(baseName) ==
    LET hits == {i \in 1..Len(BankParsers) : Contains(baseName, BankText(BankParsers[i]))}
    IN  IF hits = {} THEN None
        ELSE Some(BankParsers[CHOOSE i \in hits : \A j \in hits : i <= j])

\* f"{baseName.split('_')[0]}-UNKNOWN"
UnknownCard(baseName) ==
    LET at == {i \in 1..Len(baseName) : baseName[i] = "_"}
        first == IF at = {} THEN Len(baseName) + 1
                 ELSE CHOOSE i \in at : \A j \in at : i <= j
    IN  SubSeq(baseName, 1, first - 1) \o TextUnknown

\* a float of a dict, in hundredths
PyFloat(n) == [t |-> "float", n |-> n]

\* float(s.replace(",", "").split()[0]) for the decimal forms [-+]d*[.d*],
\* in hundredths; None where it raises
FloatOfText(s) ==
    LET words == Split(RemoveChar(s, ","))
    IN  IF Len(words) = 0 THEN None
        ELSE LET w == words[1]
                 signed == Head(w) \in {"-", "+"}
                 body == IF signed THEN Tail(w) ELSE w
                 dots == {i \in 1..Len(body) : body[i] = "."}
                 dot == IF dots = {} THEN Len(body) + 1 ELSE CHOOSE i \in dots : TRUE
                 whole == SubSeq(body, 1, dot - 1)
                 frac == SubSeq(body, dot + 1, Len(body))
                 cents == SubSeq(frac \o <<"0", "0">>, 1, 2)
             IN  IF /\ Cardinality(dots) <= 1
                    /\ Len(whole) + Len(frac) > 0
                    /\ \A i \in 1..Len(whole) : whole[i] \in Digits
                    /\ \A i \in 1..Len(frac) : frac[i] \in Digits
                 THEN Some((IF signed /\ Head(w) = "-" THEN 0 - 1 ELSE 1)
                              * (100 * NatOf(whole) + NatOf(cents)))
                 ELSE None

\* float(str(t.get("amount", 0)).replace(",", "").split()[0]), 0.0 when that
\* raises: a float is kept, text is read as a number, None gives 0.0
CleanAmount(amount) ==
    IF amount.t = "float" THEN Some(amount.n)
    ELSE IF amount.t = "str" /\ FloatOfText(amount.s) # None THEN FloatOfText(amount.s)
    ELSE Some(0)

\* lines 47-57 for one transaction
CleanTransaction(t, baseName) ==
    [t EXCEPT !.cardNumber = IF t.cardNumber = None \/ t.cardNumber = Some(<<>>)
                             THEN Some(UnknownCard(baseName)) ELSE t.cardNumber,
              !.amount = CleanAmount(t.amount)]

\* config/categories.json and config/categoryRules.json as the module loads them
PfCategories == <<[name |-> NameAmazon, cat |-> CatA],
                  [name |-> NameAmazonPay, cat |-> CatB],
                  [name |-> NameSwiggy, cat |-> CatFood]>>
PfRules == <<RuleUpi, RuleRefund>>

\* a transaction dict as a parser builds it
PfTx(date, desc, amount, type, rp, card, holder, parser) ==
    [date |-> date, description |-> desc, amount |-> amount,
     transactionType |-> type, rewardPoints |-> rp, cardNumber |-> card,
     cardHolderName |-> holder, parserUsed |-> parser,
     category |-> None, subCategory |-> None]

\* what auParser.parse returns for one statement, and the dicts as parseFile
\* reads them: the keys the parser does not set are None (dict.get)
AuStatement == <<AuLineYourTransactions, AuLineDescription, AuLineAmount, AuLineDr,
                 AuLineDescription, AuLineCr,
                 AuLineDescription, AuLineAmount, AuLineDrBadRp>>
RECURSIVE AuWalk(_, _)
AuWalk(st, lines) ==
    IF Len(lines) = 0 THEN st ELSE AuWalk(AuLineStep(st, Head(lines)), Tail(lines))
AuParsed == AuWalk(AuStateAtStart, AuStatement).transactions
AuAsParsed(txn) ==
    PfTx(txn.date, txn.description[1],
         IF txn.amount = None THEN PyNone ELSE PyStr(txn.amount[1]),
         None, txn.rewardPoints, None, None, None)

\* what genericPdfParser.parse returns for one statement
GenericParsed == GenericParse(<<GenericLineCoffee, GenericLineOther, GenericLineRefund>>)
GenericAsParsed(tx) ==
    PfTx(tx.date, tx.description, PyFloat(tx.amount), None, None,
         tx.cardNumber, None, tx.parserUsed)

\* what parser_module.parse(filePath) can return for the bank, and what
\* genericPdfParser.parse can (bank "GENERIC": no transactionType, no holder)
ParserTransactions(bank) ==
    CASE bank = "HDFC" ->
           {PfTx(Some("05/08/2025"), DescAmazonPay, PyFloat(120000), Some("DEBIT"),
                 None, None, Some("YAYIN VASHIST"), Some("hdfcParser"))}
      [] bank = "SBI" ->
           {PfTx(Some("2025-08-12"), DescUpiSwiggy, PyFloat(32600), Some("DEBIT"),
                 None, Some(SbiLineCard), Some("YAYIN VASHIST"), Some("sbiParser"))}
      [] bank = "ICICI" ->
           {PfTx(Some("10/08/2025"), DescUpiRefund, PyFloat(555236), Some("CREDIT"),
                 None, Some(IciciLineCard), None, Some("iciciParser"))}
      [] bank = "AU" -> {AuAsParsed(AuParsed[i]) : i \in 1..Len(AuParsed)}
      [] bank = "GENERIC" ->
           {GenericAsParsed(GenericParsed[i]) : i \in 1..Len(GenericParsed)}

\* the reward summaries a bank's parser can return; iciciParser never
\* appends one, genericPdfParser returns transactions only
ParserRewardSummaries(bank) ==
    CASE bank = "HDFC" -> {RwHdfc, RwHdfcNoDate}
      [] bank = "SBI" -> {RwSbiRaw} \cup {RwSbiHelper(u) : u \in Uuids}
      [] bank = "ICICI" -> {}
      [] bank = "AU" -> {RwAu}

\* the dict validateRewardSummary reads from a summary
RvDictOf(summary) ==
    [f \in RvFieldSet |-> IF summary[f] = None THEN PyNone ELSE PyInt(summary[f][1])]

\* validateAndLogRewardSummaries(rewardSummaries, overwrite=True): the
\* (summary, message) of every summary that is not valid
RECURSIVE ValidateAndLogRewardSummaries(_)
ValidateAndLogRewardSummaries(summaries) ==
    IF Len(summaries) = 0 THEN <<>>
    ELSE LET result == ValidateRewardSummary(RvDictOf(Head(summaries)))
             rest == ValidateAndLogRewardSummaries(Tail(summaries))
         IN  IF result.valid THEN rest
             ELSE <<[summary |-> Head(summaries), message |-> result.message]>> \o rest

\* the header row and the row written for one (summary, message)
LogHeader == [kind |-> "header", cells |-> <<>>, issue |-> [kind |-> "issue"]]
LogRow(w) ==
    [kind  |-> "row",
     cells |-> <<w.summary.statementDate, w.summary.cardNumber,
                 w.summary.cardHolderName, w.summary.openingBalance,
                 w.summary.earned, w.summary.redeemed, w.summary.adjustedLapsed,
                 w.summary.closingBalance>>,
     issue |-> w.message]
LogRows(warnings) == [i \in 1..Len(warnings) |-> LogRow(warnings[i])]

\* if overwrite or csvfile.tell() == 0: the header is written
LogNeedsHeaderAlways(overwrite, position) == TRUE
LogNeedsHeader(overwrite, position) == overwrite \/ position = 0

\* rewardValidator.validateAndLogRewardSummaries(summaries, logPath,
\* overwrite) on the file: mode "w" empties it, mode "a" starts at its end;
\* [file, warnings]
ValidateAndLog(file, summaries, overwrite) ==
    LET opened == IF overwrite THEN <<>> ELSE file
        headed == IF LogNeedsHeader(overwrite, Len(opened))
                  THEN Append(opened, LogHeader) ELSE opened
        warnings == ValidateAndLogRewardSummaries(summaries)
    IN  [file |-> headed \o LogRows(warnings), warnings |-> warnings]

\* validator.validateRewardSummary's message: the mismatch has no [opening=...] part
ValidatorMessage(message) ==
    IF message.kind = "mismatch"
    THEN [kind |-> "mismatch", expected_closing |-> message.expected_closing,
          actual_closing |-> message.actual_closing]
    ELSE message

\* validator.validateAndLogRewardSummaries(summaries, logPath): always mode "a"
ValidatorValidateAndLog(file, summaries) ==
    LET headed == IF Len(file) = 0 THEN Append(file, LogHeader) ELSE file
        found == ValidateAndLogRewardSummaries(summaries)
        warnings == [i \in 1..Len(found) |->
                        [summary |-> found[i].summary,
                         message |-> ValidatorMessage(found[i].message)]]
    IN  [file |-> headed \o LogRows(warnings), warnings |-> warnings]

\* ---- the summaries the batch validators are called on
RwMismatch == Rw(Some("12 Aug, 2025"), None, Some("YAYIN VASHIST"),
                 Some(100), Some(20), Some(0), Some(0), Some(130),
                 Some("hdfcParser"), None)
LogSummaries == {RwHdfc, RwAu, RwMismatch}
MaxLogLen == 2      \* summaries in one call
MaxLogCalls == 2    \* calls on the file

LogIdle ==
    /\ logFile = <<>> /\ logCalls = 0 /\ logArg = <<>> /\ logOverwrite = FALSE
    /\ logReturned = <<>> /\ logBefore = <<>>

\* a call of rewardValidator.validateAndLogRewardSummaries
LogValidateAndLog(summaries, overwrite) ==
    LET done == ValidateAndLog(logFile, summaries, overwrite)
    IN  /\ logCalls < MaxLogCalls
        /\ logCalls' = logCalls + 1
        /\ logArg' = summaries
        /\ logOverwrite' = overwrite
        /\ logBefore' = logFile
        /\ logFile' = done.file
        /\ logReturned' = done.warnings

\* a call of validator.validateAndLogRewardSummaries
LogValidatorValidateAndLog(summaries) ==
    LET done == ValidatorValidateAndLog(logFile, summaries)
    IN  /\ logCalls < MaxLogCalls
        /\ logCalls' = logCalls + 1
        /\ logArg' = summaries
        /\ logOverwrite' = FALSE
        /\ logBefore' = logFile
        /\ logFile' = done.file
        /\ logReturned' = done.warnings

\* ---- the file paths parseFile is run on
PathHdfc == <<"s", "t", "a", "t", "e", "m", "e", "n", "t", "s", "/", "h",
    "d", "f", "c", "_", "a", "u", "g", ".", "p", "d", "f">>
PathSbiIcici == <<"S", "B", "I", "_", "I", "C", "I", "C", "I", ".", "p", "d",
    "f">>
PathIciciHdfc == <<"i", "c", "i", "c", "i", "-", "h", "d", "f", "c", ".",
    "p", "d", "f">>
PathIcici == <<"b", "i", "l", "l", "_", "i", "c", "i", "c", "i", ".", "P",
    "D", "F">>
PathAugust == <<"a", "u", "g", "u", "s", "t", ".", "p", "d", "f">>
PathAuCard == <<"c", "a", "r", "d", "s", "/", "A", "U", "_", "c", "a", "r",
    "d", ".", "p", "d", "f">>
PathHdfcDir == <<"H", "D", "F", "C", "/", "s", "t", "a", "t", "e", "m", "e",
    "n", "t", ".", "p", "d", "f">>
PathPlain == <<"s", "b", "i", "/", "b", "i", "l", "l", ".", "p", "d", "f">>

FilePaths == {PathHdfc, PathSbiIcici, PathIciciHdfc, PathIcici, PathAugust,
              PathAuCard, PathHdfcDir, PathPlain}

MaxPfTx == 2    \* transactions a parser returns
MaxPfRw == 1    \* reward summaries a parser returns

PfIdle ==
    /\ pfPc = "idle" /\ pfFilePath = <<>> /\ pfBaseName = <<>>
    /\ pfParserModule = None /\ pfTransactions = <<>> /\ pfRewardSummaries = <<>>
    /\ pfWarnings = None /\ pfTxCount = 0 /\ pfRwCount = 0
    /\ pfRwTableAtCall = <<>> /\ pfOpened = "notyet" /\ pfFiles = {}

\* rewardPointsSummary before the call: empty, or with the rows of an
\* earlier statement
EarlierRewardTables == {<<>>, RwRows(<<RwHdfc>>), RwRows(<<RwSbiRaw, RwAu>>)}

\* parseFile(filePath) is called
PfStart ==
    /\ pfPc = "select" /\ pfFilePath \in FilePaths /\ pfBaseName = <<>>
    /\ pfParserModule = None /\ pfTransactions = <<>> /\ pfRewardSummaries = <<>>
    /\ pfWarnings = None /\ pfTxCount = 0 /\ pfRwCount = 0
    /\ rwTable \in EarlierRewardTables /\ pfRwTableAtCall = rwTable
    /\ pfOpened = "notyet" /\ pfFiles = {}
    /\ rwArg = None /\ rwRet = 0 /\ rwBefore = <<>> /\ rwRepeat = FALSE

\* lines 29-35: the base name and the parser module
PfSelect ==
    /\ pfPc = "select"
    /\ pfPc' = "parse"
    /\ pfBaseName' = BaseNameOf(pfFilePath)
    /\ pfParserModule' = ParserModuleFor(BaseNameOf(pfFilePath))
    /\ UNCHANGED <<logFile, ucLog, pfRwTableAtCall, pfOpened, pfFiles, pfFilePath, pfTransactions, pfRewardSummaries,
                   pfWarnings, pfTxCount, pfRwCount, txVars, rwVars>>

\* where parseFile goes on after the parser's call: there is no try around
\* it, an exception of the open (openPdf's ValueError, pdfplumber's own)
\* leaves parseFile
PfAfterParseIgnoringOpen(opened) == "transactions"
PfAfterParse(opened) == IF opened THEN "transactions" ELSE "raised"

\* lines 38-44: the bank's parser, or the generic one and rewardSummaries = []
PfParse ==
    \E opened \in BOOLEAN :
        /\ pfPc = "parse"
        /\ pfPc' = PfAfterParse(opened)
        /\ pfOpened' = IF opened THEN "opened" ELSE "failed"
        /\ IF ~opened
           THEN UNCHANGED <<pfTransactions, pfRewardSummaries>>
           ELSE IF pfParserModule # None
           THEN /\ pfTransactions' \in
                       SeqUpTo(ParserTransactions(pfParserModule[1]), MaxPfTx)
                /\ pfRewardSummaries' \in
                       SeqUpTo(ParserRewardSummaries(pfParserModule[1]), MaxPfRw)
           ELSE /\ pfTransactions' \in SeqUpTo(ParserTransactions("GENERIC"), MaxPfTx)
                /\ pfRewardSummaries' = <<>>
        /\ UNCHANGED <<logFile, ucLog, pfRwTableAtCall, pfFiles, pfFilePath, pfBaseName, pfParserModule,
                       pfWarnings, pfTxCount, pfRwCount, txVars, rwVars>>

\* lines 46-71: card number and amount of each transaction, categories,
\* insertTransactions
PfInsertTransactions ==
    LET cleaned == [i \in 1..Len(pfTransactions) |->
                       CleanTransaction(pfTransactions[i], pfBaseName)]
        categorized == CategorizeTransactions(PfCategories, PfRules, cleaned)
        done == InsertTransactionsOn(txTable, categorized)
    IN  /\ pfPc = "transactions"
        /\ pfPc' = "rewards"
        /\ pfTransactions' = categorized
        /\ txTable' = done.table
        /\ pfTxCount' = done.ret
        /\ pfFiles' = (IF pfTransactions # <<>>
                      THEN pfFiles \cup {"data/parsed/transactions.csv"} ELSE pfFiles)
                          \cup (IF UncategorizedOf(categorized) # <<>>
                                THEN {"logs/unparsedTransactions.csv"} ELSE {})
        /\ ucLog' = IF pfTransactions # <<>> THEN LogUncategorized(ucLog, categorized)
                    ELSE ucLog
        /\ UNCHANGED <<logFile, pfRwTableAtCall, pfOpened, pfFilePath, pfBaseName, pfParserModule, pfRewardSummaries,
                       pfWarnings, pfRwCount, txArg, txRet, txBefore, txRepeat,
                       rwVars>>

\* line 79: what is handed to insertRewardSummary after the validation is
\* rewardSummaries itself, the warnings play no part
PfSummariesWithoutWarnings(summaries, warnings) ==
    SelectSeq(summaries,
              LAMBDA s : \A w \in 1..Len(warnings) : warnings[w].summary # s)
PfSummariesToInsert(summaries, warnings) == summaries

\* lines 73-86: if rewardSummaries: validate and log, insertRewardSummary
PfInsertRewardSummaries ==
    LET logged == ValidateAndLog(logFile, pfRewardSummaries, TRUE)
        warnings == logged.warnings
        passed == PfSummariesToInsert(pfRewardSummaries, warnings)
        done == InsertRewardSummaryOn(rwTable, passed)
    IN  /\ pfPc = "rewards"
        /\ pfPc' = "report"
        /\ rwArg' = IF pfRewardSummaries # <<>> THEN Some(passed) ELSE rwArg
        /\ IF pfRewardSummaries # <<>>
           THEN /\ pfWarnings' = Some(warnings)
                /\ rwTable' = done.table
                /\ pfRwCount' = done.ret
                /\ logFile' = logged.file
                /\ pfFiles' = pfFiles \cup {"logs/rewardValidationWarnings.csv",
                                             "data/parsed/rewardSummaries.csv"}
           ELSE UNCHANGED <<pfWarnings, rwTable, pfRwCount, pfFiles, logFile>>
        /\ UNCHANGED <<ucLog, pfRwTableAtCall, pfOpened, pfFilePath, pfBaseName, pfParserModule, pfTransactions,
                       pfRewardSummaries, pfTxCount, txVars, rwRet,
                       rwBefore, rwRepeat>>

\* lines 88-112: the reports are written from the tables; return txCount, rwCount
PfReturn ==
    /\ pfPc = "report"
    /\ pfPc' = "done"
    /\ pfFiles' = pfFiles \cup {"monthly_aggregation", "quarterly_aggregation",
                                 "bill_summary"}
    /\ UNCHANGED <<logFile, ucLog, pfRwTableAtCall, pfOpened, pfFilePath, pfBaseName, pfParserModule, pfTransactions,
                   pfRewardSummaries, pfWarnings, pfTxCount, pfRwCount,
                   txVars, rwVars>>

\* ---- categorizeTransactions called again and again with config/ as PfCategories
\* and PfRules
UcTxDomain == ParserTransactions("HDFC") \cup ParserTransactions("GENERIC")
                  \cup ParserTransactions("AU")
MaxUcTx == 2        \* transactions in one call
MaxUcCalls == 2     \* calls of categorizeTransactions

UcIdle == ucLog = <<>> /\ ucCalls = 0 /\ ucArg = <<>> /\ ucRet = <<>>

UcCategorizeTransactions(transactions) ==
    LET returned == CategorizeTransactions(PfCategories, PfRules, transactions)
    IN  /\ ucCalls < MaxUcCalls
        /\ ucCalls' = ucCalls + 1
        /\ ucArg' = transactions
        /\ ucLog' = LogUncategorized(ucLog, returned)
        /\ ucRet' = returned


vars == <<txVars, rwVars, rvVars, catVars, sbiVars, iciciVars, pfVars, auVars, logVars, ucVars, hdfcVars>>

notTx == <<rwVars, rvVars, catVars, sbiVars, iciciVars, pfVars, auVars, logVars, ucVars, hdfcVars>>
notRw == <<txVars, rvVars, catVars, sbiVars, iciciVars, pfVars, auVars, logVars, ucVars, hdfcVars>>
notRv == <<txVars, rwVars, catVars, sbiVars, iciciVars, pfVars, auVars, logVars, ucVars, hdfcVars>>
notCat == <<txVars, rwVars, rvVars, sbiVars, iciciVars, pfVars, auVars, logVars, ucVars, hdfcVars>>
notSbi == <<txVars, rwVars, rvVars, catVars, iciciVars, pfVars, auVars, logVars, ucVars, hdfcVars>>
notIcici == <<txVars, rwVars, rvVars, catVars, sbiVars, pfVars, auVars, logVars, ucVars, hdfcVars>>
notPf == <<rvVars, catVars, sbiVars, iciciVars, auVars, logCallVars, ucCallVars, hdfcVars>>
notAu == <<txVars, rwVars, rvVars, catVars, sbiVars, iciciVars, pfVars, logVars, ucVars, hdfcVars>>
notLog == <<txVars, rwVars, rvVars, catVars, sbiVars, iciciVars, pfVars, auVars, ucVars, hdfcVars>>
notUc == <<txVars, rwVars, rvVars, catVars, sbiVars, iciciVars, pfVars, auVars, logVars, hdfcVars>>
notHdfc == <<txVars, rwVars, rvVars, catVars, sbiVars, iciciVars, pfVars, auVars, logVars, ucVars>>

\* ---- the transactions table under arbitrary insertTransactions calls
TxInit == TxIdle /\ RwIdle /\ RvIdle /\ CatIdle /\ SbiIdle /\ IciciIdle /\ PfIdle /\ AuIdle /\ LogIdle /\ UcIdle /\ HdfcIdle
TxNext == InsertTransactions /\ UNCHANGED notTx
SpecTx == TxInit /\ [][TxNext]_vars

\* ---- the rewardPointsSummary table under arbitrary insertRewardSummary calls
RwInit == TxIdle /\ RwIdle /\ RvIdle /\ CatIdle /\ SbiIdle /\ IciciIdle /\ PfIdle /\ AuIdle /\ LogIdle /\ UcIdle /\ HdfcIdle
RwNext == InsertRewardSummary /\ UNCHANGED notRw
SpecRw == RwInit /\ [][RwNext]_vars

\* ---- validateRewardSummary on every summary of RvSummaries
RvInit ==
    /\ TxIdle /\ RwIdle /\ CatIdle /\ SbiIdle /\ IciciIdle /\ PfIdle /\ AuIdle /\ LogIdle /\ UcIdle /\ HdfcIdle
    /\ rvSummary \in RvSummaries /\ rvResult = None
RvNext == CallValidateRewardSummary /\ UNCHANGED notRv
SpecRv == RvInit /\ [][RvNext]_vars

\* ---- categorizeTransactions on every configuration and transaction list
CatInit ==
    /\ TxIdle /\ RwIdle /\ RvIdle /\ SbiIdle /\ IciciIdle /\ PfIdle /\ AuIdle /\ LogIdle /\ UcIdle /\ HdfcIdle
    /\ catCategories \in CatCategoriesInputs
    /\ catRules \in CatRulesInputs
    /\ catTxs \in CatTxInputs
    /\ catDone = FALSE
CatNext == CallCategorizeTransactions /\ UNCHANGED notCat
SpecCat == CatInit /\ [][CatNext]_vars

\* ---- sbiParser.parse on every document of at most MaxSbiPages pages and
\* MaxSbiLines lines
SbiInit == TxIdle /\ RwIdle /\ RvIdle /\ CatIdle /\ SbiStart /\ IciciIdle /\ PfIdle /\ AuIdle /\ LogIdle /\ UcIdle /\ HdfcIdle
SbiNext ==
    \/ SbiSkipPage /\ UNCHANGED notSbi
    \/ SbiBeginPage /\ UNCHANGED notSbi
    \/ (\E rawLine \in SbiLines : SbiReadLine(rawLine)) /\ UNCHANGED notSbi
    \/ SbiEndPage /\ UNCHANGED notSbi
    \/ SbiFinish /\ UNCHANGED notSbi
SpecSbi == SbiInit /\ [][SbiNext]_vars

\* ---- iciciParser.parse on every document of at most MaxIciciPages pages
\* and MaxIciciLines lines
IciciInit == TxIdle /\ RwIdle /\ RvIdle /\ CatIdle /\ SbiIdle /\ IciciStart /\ PfIdle /\ AuIdle /\ LogIdle /\ UcIdle /\ HdfcIdle
IciciNext ==
    \/ (\E hasText \in BOOLEAN : IciciNextPage(hasText)) /\ UNCHANGED notIcici
    \/ (\E rawLine \in IciciLines : IciciReadLine(rawLine)) /\ UNCHANGED notIcici
    \/ IciciFinish /\ UNCHANGED notIcici
SpecIcici == IciciInit /\ [][IciciNext]_vars

\* ---- parseFile on every path of FilePaths, the tables empty before it
PfInit ==
    /\ TxIdle /\ RvIdle /\ CatIdle /\ SbiIdle /\ IciciIdle /\ PfStart /\ AuIdle /\ LogIdle /\ UcIdle /\ HdfcIdle
PfNext ==
    \/ PfSelect /\ UNCHANGED notPf
    \/ PfParse /\ UNCHANGED notPf
    \/ PfInsertTransactions /\ UNCHANGED notPf
    \/ PfInsertRewardSummaries /\ UNCHANGED notPf
    \/ PfReturn /\ UNCHANGED notPf
SpecPf == PfInit /\ [][PfNext]_vars

\* ---- auParser.parse on every document of at most MaxAuPages pages and
\* MaxAuLines lines
AuInit ==
    /\ TxIdle /\ RwIdle /\ RvIdle /\ CatIdle /\ SbiIdle /\ IciciIdle /\ PfIdle
    /\ AuStart /\ LogIdle /\ UcIdle /\ HdfcIdle
AuNext ==
    \/ (\E text \in {"none", "empty", "lines"} : AuNextPage(text)) /\ UNCHANGED notAu
    \/ (\E rawLine \in AuLines : AuReadLine(rawLine)) /\ UNCHANGED notAu
    \/ AuFinish /\ UNCHANGED notAu
SpecAu == AuInit /\ [][AuNext]_vars

\* ---- the audit log under arbitrary calls of the two batch validators
LogInit ==
    /\ TxIdle /\ RwIdle /\ RvIdle /\ CatIdle /\ SbiIdle /\ IciciIdle /\ PfIdle
    /\ AuIdle /\ LogIdle /\ UcIdle /\ HdfcIdle
LogNext ==
    \/ (\E summaries \in SeqUpTo(LogSummaries, MaxLogLen), overwrite \in BOOLEAN :
           LogValidateAndLog(summaries, overwrite)) /\ UNCHANGED notLog
    \/ (\E summaries \in SeqUpTo(LogSummaries, MaxLogLen) :
           LogValidatorValidateAndLog(summaries)) /\ UNCHANGED notLog
SpecLog == LogInit /\ [][LogNext]_vars

\* ---- the uncategorized log under arbitrary calls of categorizeTransactions
UcInit ==
    /\ TxIdle /\ RwIdle /\ RvIdle /\ CatIdle /\ SbiIdle /\ IciciIdle /\ PfIdle
    /\ AuIdle /\ LogIdle /\ UcIdle /\ HdfcIdle
UcNext ==
    (\E transactions \in SeqUpTo(UcTxDomain, MaxUcTx) :
        UcCategorizeTransactions(transactions)) /\ UNCHANGED notUc
SpecUc == UcInit /\ [][UcNext]_vars

\* ---- hdfcParser.parse on every statement of at most MaxHdfcPages pages
HdfcInit ==
    /\ TxIdle /\ RwIdle /\ RvIdle /\ CatIdle /\ SbiIdle /\ IciciIdle /\ PfIdle
    /\ AuIdle /\ LogIdle /\ UcIdle /\ HdfcStart
HdfcNext ==
    \/ (\E hasText \in BOOLEAN : HdfcNextPage(hasText)) /\ UNCHANGED notHdfc
    \/ (\E rawLine \in HdfcLines : HdfcReadLine(rawLine)) /\ UNCHANGED notHdfc
    \/ HdfcFinish /\ UNCHANGED notHdfc
SpecHdfc == HdfcInit /\ [][HdfcNext]_vars

(***************************************************************************)
(* Claims                                                                  *)
(***************************************************************************)
TxSameKey(r, s) == \A c \in TxKey : r[c] = s[c]

\* C1: insertTransactions(X) right after insertTransactions(X) returns 0 and
\* leaves the stored rows unchanged, and the table never holds two rows that
\* agree on (date, description, amount, transactionType, cardHolderName).
C1_SecondInsertAddsNothing ==
    /\ txRepeat => (txRet = 0 /\ txTable = txBefore)
    /\ \A i, j \in 1..Len(txTable) : i # j => ~TxSameKey(txTable[i], txTable[j])

\* C2: insertRewardSummary(S') for a second parse S' of the file whose
\* summaries S were just inserted returns 0 and adds no row.
C2_ReparseAddsNoSummary ==
    rwRepeat => (rwRet = 0 /\ rwTable = rwBefore)

RvAllInts == \A f \in RvFieldSet : f \in DOMAIN rvSummary /\ rvSummary[f].t = "int"
RvOut == rvResult[1]

\* C3: on integers o, e, r, a the summary with closingBalance o+e-r-a is
\* (True, ""), and with any other closingBalance it is (False, m) with m a
\* "mismatch" message carrying the expected and the actual closing value and
\* the four inputs.
C3_ReconciliationCorrect ==
    (rvResult # None /\ RvAllInts) =>
        LET o == rvSummary["openingBalance"].n
            e == rvSummary["earned"].n
            r == rvSummary["redeemed"].n
            a == rvSummary["adjustedLapsed"].n
            c == rvSummary["closingBalance"].n
        IN  IF c = o + e - r - a
            THEN RvOut = [valid |-> TRUE, message |-> [kind |-> "ok"]]
            ELSE /\ RvOut.valid = FALSE
                 /\ RvOut.message.kind = "mismatch"
                 /\ RvOut.message.expected_closing = o + e - r - a
                 /\ RvOut.message.actual_closing = c
                 /\ RvOut.message.opening = o /\ RvOut.message.earned = e
                 /\ RvOut.message.redeemed = r /\ RvOut.message.adjusted = a

C3_Witness ==
    /\ rvResult # None /\ RvAllInts
    /\ rvSummary["redeemed"].n = 1 /\ rvSummary["adjustedLapsed"].n = 1
    /\ rvSummary["closingBalance"].n = 1
    /\ RvOut.valid = FALSE /\ RvOut.message.kind = "mismatch"

\* the fields that are absent, None or text that is no integer
RvUnusable(f) ==
    \/ f \notin DOMAIN rvSummary
    \/ rvSummary[f] = PyNone
    \/ rvSummary[f] = PyStr(TextNone)
RvM == {f \in RvFieldSet : RvUnusable(f)}

\* C4: when a non-empty set M of the five fields is absent or not coercible,
\* the result is (False, m) and m names exactly the fields of M, whatever the
\* other fields hold; for {} m names all five.
C4_IncompleteNamesExactlyMissing ==
    (rvResult # None /\ RvM # {}) =>
        /\ RvOut.valid = FALSE
        /\ RvOut.message.kind = "incomplete_fields"
        /\ {RvOut.message.missing[i] : i \in 1..Len(RvOut.message.missing)} = RvM
        /\ Len(RvOut.message.missing) = Cardinality(RvM)
        /\ (DOMAIN rvSummary = {} => RvOut.message.missing = RvFields)

C4_Witness ==
    /\ rvResult # None
    /\ DOMAIN rvSummary = RvFieldSet \ {"earned"}
    /\ RvM = {"earned", "closingBalance"}
    /\ rvSummary["closingBalance"] = PyStr(TextNone)
    /\ rvSummary["openingBalance"] = PyStr(TextTen)
    /\ RvOut.message.missing = <<"earned", "closingBalance">>

\* ---- the categorizer's claims: what the configuration says of a description
CatIn(i) == [catTxs[i] EXCEPT !.category = None, !.subCategory = None]
CatOutPair(i) == Pair(catTxs[i].category[1], catTxs[i].subCategory[1])
\* the entries of categories.json whose name occurs in description i, case-insensitively
CatMatching(i) ==
    {j \in 1..Len(catCategories) :
        Contains(Lower(catTxs[i].description), Lower(catCategories[j].name))}
CatLongest(i) ==
    LET m == CatMatching(i)
    IN  {j \in m : \A k \in m : Len(catCategories[k].name) <= Len(catCategories[j].name)}
\* the entries of categoryRules.json that qualify for transaction i
CatQualifying(i) ==
    {k \in 1..Len(catRules) :
        /\ catRules[k].pattern.valid
        /\ \E a \in 1..Len(catRules[k].pattern.alts) :
               Contains(Lower(catTxs[i].description), Lower(catRules[k].pattern.alts[a]))
        /\ NormalizedRule(catRules[k].data)[TxTypeOf(catTxs[i])] # None}
CatReorderings ==
    {q \in Arrangements(Merchants, Len(catCategories)) :
        /\ Len(q) = Len(catCategories)
        /\ {q[j] : j \in 1..Len(q)} = {catCategories[j] : j \in 1..Len(catCategories)}}
Least(S) == CHOOSE x \in S : \A y \in S : x <= y

\* C5 (as stated): when several merchant names occur in a description the
\* transaction gets the pair of the longest one, and the result is the same
\* for every order of the names in categories.json.
C5_LongestWinsInAnyOrder ==
    catDone =>
        \A i \in 1..Len(catTxs) :
            CatMatching(i) # {} =>
                /\ \E j \in CatLongest(i) : CatOutPair(i) = catCategories[j].cat
                /\ \A q \in CatReorderings :
                       CategorizeTransactions(q, catRules, <<CatIn(i)>>) = <<catTxs[i]>>

\* C5 (amended): when several merchant names occur in a description the
\* transaction gets the pair of the longest one; among occurring names of the
\* same greatest length the one that comes first in categories.json wins.
C5_LongestWinsFirstOnTie ==
    catDone =>
        \A i \in 1..Len(catTxs) :
            CatMatching(i) # {} =>
                LET longest == CatLongest(i)
                IN  CatOutPair(i) = catCategories[Least(longest)].cat

C5_Witness ==
    /\ catDone
    /\ catCategories = <<[name |-> NameAmazon, cat |-> CatA],
                         [name |-> NameAmazonPay, cat |-> CatB]>>
    /\ Len(catTxs) = 1
    /\ catTxs[1].description = DescAmazonPay
    /\ CatOutPair(1) = CatB

\* C6: a transaction whose description contains no merchant name gets the
\* pair of the first rule, in file order, whose pattern matches and which has
\* a sub-rule for the transaction's type; a matching rule without such a
\* sub-rule does not stop the scan; with no such rule it gets
\* "Uncategorized"/"Needs Review".
C6_RegexFallback ==
    catDone =>
        \A i \in 1..Len(catTxs) :
            CatMatching(i) = {} =>
                LET q == CatQualifying(i)
                IN  CatOutPair(i) =
                        IF q = {} THEN FallbackPair
                        ELSE NormalizedRule(catRules[Least(q)].data)[TxTypeOf(catTxs[i])][1]

C6_Witness ==
    /\ catDone
    /\ catCategories = <<>>
    /\ catRules = <<RuleRefund, RuleUpi>>
    /\ Len(catTxs) = 1
    /\ catTxs[1].description = DescUpiRefund
    /\ catTxs[1].transactionType = Some("DEBIT")
    /\ CatOutPair(1) = Pair("Transfers", "UPI")

\* C7: after categorizeTransactions every transaction has a category and a
\* subCategory: a matching merchant's pair if any merchant matches (no rule
\* overrides it), otherwise a qualifying rule's pair, otherwise exactly
\* "Uncategorized"/"Needs Review"; with both files empty, always the latter.
C7_StrictPriority ==
    catDone =>
        \A i \in 1..Len(catTxs) :
            LET m == CatMatching(i)
                q == CatQualifying(i)
            IN  /\ catTxs[i].category # None /\ catTxs[i].subCategory # None
                /\ m # {} => \E j \in m : CatOutPair(i) = catCategories[j].cat
                /\ (m = {} /\ q # {}) =>
                       \E k \in q :
                           CatOutPair(i) =
                               NormalizedRule(catRules[k].data)[TxTypeOf(catTxs[i])][1]
                /\ (m = {} /\ q = {}) => CatOutPair(i) = FallbackPair
                /\ (catCategories = <<>> /\ catRules = <<>>) => CatOutPair(i) = FallbackPair

C7_Witness ==
    /\ catDone
    /\ Len(catTxs) = 1
    /\ catTxs[1].description = DescUpiSwiggy
    /\ CatMatching(1) # {} /\ CatQualifying(1) # {}
    /\ CatOutPair(1) = CatFood

\* ---- the SBI rows of the statement's form, and what each is read as
SbiDescSwiggy == <<"U", "P", "I", "-", "S", "w", "i", "g", "g", "y", " ",
    "I", "n", "s", "t", "a", "m", "a", "r", "t">>
SbiDescPayment == <<"P", "A", "Y", "M", "E", "N", "T", " ", "R", "E", "C",
    "E", "I", "V", "E", "D">>
SbiDescInner == <<"E", "M", "I", " ", "5", "0", "0", ".", "0", "0", " ", "D",
    " ", "F", "E", "E">>
SbiDescFee == <<"F", "E", "E">>
SbiRowReading(line, description, amount, transactionType) ==
    [line |-> line, description |-> description, amount |-> amount,
     transactionType |-> transactionType]
SbiRowReadings ==
    {SbiRowReading(SbiLineRowD, SbiDescSwiggy, 32600, "DEBIT"),
     SbiRowReading(SbiLineRowC, SbiDescPayment, 150000, "CREDIT"),
     SbiRowReading(SbiLineRowInner, SbiDescInner, 125050, "CREDIT"),
     SbiRowReading(SbiLineRowBadDate, SbiDescFee, 1000, "DEBIT")}
SbiLastTransaction == sbiTransactions[Len(sbiTransactions)]

\* C8: once the header line of the transaction table has been seen, a line
\* "<dd> <Mon> <yy> <description> <amount> <D|C>" adds exactly one
\* transaction: its description is the trimmed text between date and amount,
\* its amount the number with the thousands separators removed, its type
\* DEBIT for D and CREDIT for C ("12 Aug 25 UPI-Swiggy Instamart 326.00 D"
\* gives "UPI-Swiggy Instamart", 326.00, DEBIT); before the header no line
\* adds a transaction.
C8_SbiRowAfterHeader ==
    /\ ~sbiInsideTransactions => sbiTransactions = <<>>
    /\ \A r \in SbiRowReadings :
          (sbiLine = Some(r.line) /\ sbiInsideTransactions) =>
              /\ Len(sbiTransactions) = sbiEmittedBefore + 1
              /\ SbiLastTransaction.description = r.description
              /\ SbiLastTransaction.amount = r.amount
              /\ SbiLastTransaction.transactionType = r.transactionType

C8_Witness ==
    /\ sbiInsideTransactions
    /\ sbiLine = Some(SbiLineRowC)
    /\ Len(sbiTransactions) = 2
    /\ sbiTransactions[1].description = SbiDescSwiggy
    /\ sbiTransactions[1].amount = 32600
    /\ sbiTransactions[1].transactionType = "DEBIT"
    /\ sbiTransactions[2].amount = 150000
    /\ sbiTransactions[2].transactionType = "CREDIT"

\* ---- the ICICI rows of the statement's form, and what each is read as
IciciRowReading(line, amount, transactionType) ==
    [line |-> line, amount |-> amount, transactionType |-> transactionType]
IciciPlainRowReadings ==
    {IciciRowReading(IciciLineRowCR, 555236, "CREDIT"),
     IciciRowReading(IciciLineRow, 555236, "DEBIT"),
     IciciRowReading(IciciLineRowBbps, 1000, "CREDIT")}
\* a description that itself holds "<number> <amount>": read up to the first
IciciRowReadings ==
    IciciPlainRowReadings \cup {IciciRowReading(IciciLineRowInner, 10000, "DEBIT")}
IciciLastTransaction == iciciTransactions[Len(iciciTransactions)]
IciciAddsOne(r) ==
    /\ Len(iciciTransactions) = iciciEmittedBefore + 1
    /\ IciciLastTransaction.amount = r.amount
    /\ IciciLastTransaction.transactionType = r.transactionType

DispatchReading(filePath, bank) == [filePath |-> filePath, bank |-> bank]
DispatchReadings ==
    {DispatchReading(PathHdfc, Some("HDFC")),
     DispatchReading(PathSbiIcici, Some("SBI")),
     DispatchReading(PathIciciHdfc, Some("HDFC")),
     DispatchReading(PathIcici, Some("ICICI")),
     DispatchReading(PathAugust, Some("AU")),
     DispatchReading(PathAuCard, Some("AU")),
     DispatchReading(PathHdfcDir, None),
     DispatchReading(PathPlain, None)}
PfSelected == pfPc \notin {"idle", "select"}
PfParsed == pfPc \in {"transactions", "rewards", "report", "done"}

\* C10: parseFile takes the first bank of HDFC, SBI, ICICI, AU whose
\* identifier occurs in the upper-cased base name of the path, directories
\* left out, and the generic parser exactly when none occurs; with the
\* generic parser the reward summaries are empty whatever was parsed, none is
\* validated and the reward table stays as it was.
C10_Dispatch ==
    /\ PfSelected =>
          /\ \E r \in DispatchReadings :
                r.filePath = pfFilePath /\ r.bank = pfParserModule
          /\ (pfParserModule = None) <=>
                (\A i \in 1..Len(BankParsers) :
                    ~Contains(pfBaseName, BankText(BankParsers[i])))
    /\ (PfParsed /\ pfParserModule = None) =>
          /\ pfRewardSummaries = <<>>
          /\ pfWarnings = None
          /\ pfRwCount = 0
          /\ rwTable = pfRwTableAtCall

C10_Witness ==
    /\ pfPc = "done"
    /\ pfFilePath = PathHdfcDir
    /\ pfParserModule = None
    /\ Len(pfTransactions) = 1 /\ pfTxCount = 1
    /\ pfWarnings = None
    /\ rwTable = pfRwTableAtCall /\ Len(rwTable) = 2

\* ---- the AU parser's claims
\* dict.get(key) on a transaction dict of the AU parser
AuGet(txn, key) == IF key \in DOMAIN txn THEN txn[key] ELSE None

\* C11: every transaction a bank parser returns has a transactionType that
\* is DEBIT or CREDIT (here: the AU parser, whose token is Dr or Cr).
C11_TransactionTypeIsDebitOrCredit ==
    auPc = "done" =>
        \A i \in 1..Len(auTransactions) :
            AuGet(auTransactions[i], "transactionType") \in {Some("DEBIT"), Some("CREDIT")}

\* the name each Bank Parser should leave in parserUsed
ProducerNames ==
    [HDFC |-> "hdfcParser", SBI |-> "sbiParser", ICICI |-> "iciciParser",
     AU |-> "auParser", GENERIC |-> "genericPdfParser"]
PfProducer ==
    ProducerNames[IF pfParserModule = None THEN "GENERIC" ELSE pfParserModule[1]]

\* C12: every transaction and every reward summary that parseFile stores
\* carries in parserUsed the name of the parser that produced it
C12_StoredParserIsProducer ==
    PfParsed =>
        /\ \A i \in 1..Len(txTable) : txTable[i].parserUsed = Some(PfProducer)
        /\ \A i \in 1..Len(rwTable) :
               (\A j \in 1..Len(pfRwTableAtCall) : pfRwTableAtCall[j] # rwTable[i])
                   => rwTable[i].parserUsed = Some(PfProducer)

\* parseFile is past the post-processing of the transactions (lines 46-58)
PfCleaned == pfPc \in {"rewards", "report", "done"}

\* C13: after the amount post-processing of parseFile every transaction's
\* amount is a number that is not negative
C13_AmountNotNegative ==
    PfCleaned =>
        \A i \in 1..Len(pfTransactions) :
            pfTransactions[i].amount # None /\ pfTransactions[i].amount[1] >= 0

\* the card numbers the sampled parsers supply themselves
SuppliedCards == {SbiLineCard, IciciLineCard}

\* C14: after the post-processing of parseFile every transaction has a card
\* number that is not empty: the parser's own, or the dispatched bank's
\* identifier followed by -UNKNOWN
C14_BankScopedSentinel ==
    (PfCleaned /\ pfParserModule # None) =>
        \A i \in 1..Len(pfTransactions) :
            /\ pfTransactions[i].cardNumber \notin {None, Some(<<>>)}
            /\ \/ pfTransactions[i].cardNumber[1] \in SuppliedCards
               \/ pfTransactions[i].cardNumber[1]
                      = BankText(pfParserModule[1]) \o TextUnknown

\* C15: one parse of an SBI statement returns at most one reward summary for
\* a card and a statement date
C15_OneSummaryPerCardAndStatement ==
    sbiPc = "done" =>
        \A i, j \in 1..Len(sbiRewardSummaries) :
            (/\ sbiRewardSummaries[i].cardNumber # None
             /\ sbiRewardSummaries[i].cardNumber = sbiRewardSummaries[j].cardNumber
             /\ sbiRewardSummaries[i].statementDate = sbiRewardSummaries[j].statementDate)
                => i = j

\* C16: a page without text does not make the AU parser raise: as long as no
\* line has raised, the parse goes on over the pages to its result
C16_NoTextPageIsSkipped ==
    ~auState.raised => auPc # "raised"

\* the transaction is in the transactions table
PfPersisted(t) ==
    \E j \in 1..Len(txTable) :
        /\ txTable[j].date = t.date
        /\ txTable[j].description = t.description
        /\ txTable[j].cardNumber = t.cardNumber

\* C17: a token that cannot be coerced never costs the file its records:
\* every transaction of the file whose own fields coerce is persisted
\* whatever the other transactions of the file hold
C17_OtherTransactionsPersisted ==
    PfCleaned =>
        \A i \in 1..Len(pfTransactions) :
            ~TxRewardPointsColumn(pfTransactions[i].rewardPoints).raise
                => PfPersisted(pfTransactions[i])

\* C18: when the parser cannot open the source parseFile ends with the
\* error and has inserted no transaction, no reward summary and written no
\* file; rows and files appear only after the parser has returned
C18_UnreadableSourceIsAtomic ==
    /\ pfOpened = "failed" =>
          /\ pfPc = "raised"
          /\ txTable = <<>> /\ rwTable = pfRwTableAtCall /\ pfFiles = {}
          /\ pfTxCount = 0 /\ pfRwCount = 0 /\ pfWarnings = None
    /\ (txTable # <<>> \/ rwTable # pfRwTableAtCall \/ pfFiles # {}) =>
          pfOpened = "opened" /\ pfPc \in {"rewards", "report", "done"}

C18_Witness ==
    pfPc = "raised" /\ pfOpened = "failed" /\ pfParserModule = Some("AU")
        /\ Len(rwTable) = 2

\* the row is in rewardPointsSummary, or the row that made INSERT OR IGNORE
\* pass it over is
PfSummaryStored(row) ==
    \E j \in 1..Len(rwTable) :
        rwTable[j] = row \/ UniqueConflict(rwTable[j], row, RwKey)

\* C19: every reward summary the parser returned is validated and then handed
\* to insertRewardSummary, with or without a warning, and is in the table after
C19_WarningsDoNotBlockPersistence ==
    (pfPc \in {"report", "done"} /\ pfRewardSummaries # <<>>) =>
        /\ pfWarnings # None
        /\ rwArg = Some(pfRewardSummaries)
        /\ \A i \in 1..Len(pfRewardSummaries) :
               PfSummaryStored(RwRow(pfRewardSummaries[i]))

C19_Witness ==
    /\ pfPc = "done" /\ pfWarnings # None /\ pfRwCount = 1
    /\ Len(pfWarnings[1]) = 1
    /\ pfWarnings[1][1].summary = pfRewardSummaries[1]
    /\ rwTable = pfRwTableAtCall \o <<RwRow(pfRewardSummaries[1])>>

\* the sampled summaries validateRewardSummary rejects, read by hand: RwAu has
\* no redeemed and no adjustedLapsed, RwMismatch closes at 130 for 100 + 20
LogRejected == {RwAu, RwMismatch}
LogIssueOf(s) == IF s = RwAu THEN "incomplete_fields" ELSE "mismatch"
LogCellsOf(s) ==
    <<s.statementDate, s.cardNumber, s.cardHolderName, s.openingBalance, s.earned,
      s.redeemed, s.adjustedLapsed, s.closingBalance>>

\* C20: a batch call returns the rejected summaries with their messages in
\* input order and writes one row for each; the file has one header row, at
\* its top; an appending call keeps what was there, an overwriting call
\* leaves the header and its own rows
C20_BatchValidationAndLog ==
    logCalls > 0 =>
        LET rejected == SelectSeq(logArg, LAMBDA s : s \in LogRejected)
            n == Len(logReturned)
            kept == IF logOverwrite \/ Len(logBefore) = 0 THEN 1 ELSE Len(logBefore)
        IN  /\ n = Len(rejected)
            /\ \A i \in 1..n :
                  /\ logReturned[i].summary = rejected[i]
                  /\ logReturned[i].message.kind = LogIssueOf(rejected[i])
            /\ Len(logFile) = kept + n
            /\ logFile[1].kind = "header"
            /\ \A i \in 2..Len(logFile) : logFile[i].kind = "row"
            /\ \A i \in 1..n :
                  /\ logFile[kept + i].cells = LogCellsOf(rejected[i])
                  /\ logFile[kept + i].issue = logReturned[i].message
            /\ (~logOverwrite /\ Len(logBefore) > 0) =>
                  SubSeq(logFile, 1, Len(logBefore)) = logBefore

C20_Witness ==
    /\ logCalls = 2 /\ ~logOverwrite /\ Len(logBefore) = 3
    /\ Len(logArg) = 2 /\ Len(logReturned) = 1 /\ Len(logFile) = 4

\* the fields of a transaction but category and subCategory
UcOtherFields(tx) == DOMAIN tx \ {"category", "subCategory"}

\* C21: categorizeTransactions returns the transactions it was given, as many
\* and in the same order, with no field but category and subCategory changed
C21_OnlyCategoryFieldsChange ==
    ucCalls > 0 =>
        /\ Len(ucRet) = Len(ucArg)
        /\ \A i \in 1..Len(ucArg) :
              /\ DOMAIN ucRet[i] = DOMAIN ucArg[i]
              /\ \A f \in UcOtherFields(ucArg[i]) : ucRet[i][f] = ucArg[i][f]

C21_Witness ==
    /\ ucCalls > 0 /\ Len(ucArg) = 2
    /\ ucRet[1].category = Some("Uncategorized") /\ ucRet[2].category = Some("Wallet")
    /\ ucLog = <<ucRet[1]>>

\* C30: after every call the uncategorized log holds exactly the transactions
\* of that call that ended in "Uncategorized", none when there is none
C30_LogHoldsLastBatchOnly ==
    ucCalls > 0 => ucLog = UncategorizedOf(ucRet)

\* ---- hdfcParser.parse: cardholders and the reward summary

\* the sample lines by what a reader of the statement takes them for
HdfcCapsNames == {HdfcLinePrimary, HdfcLineOtherCaps}
HdfcCapsNamesAndPipes == HdfcCapsNames \cup {HdfcLinePipe}
HdfcNames == HdfcCapsNames \cup {HdfcLineAddOn}

\* what a line does to the two cardholders when caps is the set of lines
\* that may become the primary cardholder
HdfcHoldersFollow(caps) ==
    hdfcLine # None =>
        LET line == hdfcLine[1]
        IN  /\ hdfcBefore.primaryCardHolder # None =>
                  hdfcState.primaryCardHolder = hdfcBefore.primaryCardHolder
            /\ hdfcBefore.primaryCardHolder = None =>
                  hdfcState.primaryCardHolder =
                      (IF line \in caps THEN Some(line) ELSE None)
            /\ hdfcState.currentCardHolder =
                  (IF line \in HdfcNames \cup caps THEN Some(line)
                   ELSE hdfcBefore.currentCardHolder)
            /\ Len(hdfcState.transactions) > Len(hdfcBefore.transactions) =>
                  hdfcState.transactions[Len(hdfcState.transactions)].cardHolderName
                      = hdfcBefore.currentCardHolder

HdfcClosingShown ==
    [l \in HdfcLines |-> IF l = HdfcLineEarned THEN Some(120) ELSE None]
HdfcFourShown ==
    [l \in HdfcLines |->
        IF l = HdfcLineFour THEN Some(<<100, 20, 0, 0>>)
        ELSE IF l = HdfcLineFourBig THEN Some(<<1100, 20, 1000, 0>>)
        ELSE None]

\* C23: a parse returns at most one reward summary, and one exactly when a
\* "Points Earned" line gave the closing balance and a line of four numbers
\* gave opening, earned, redeemed and adjusted, in this order; its
\* cardHolderName is the primary cardholder, or "PRIMARY CARDHOLDER" when
\* there is none
C23_OneSummaryWhenResolved ==
    /\ hdfcLine # None =>
          LET closing == HdfcClosingShown[hdfcLine[1]]
              four == HdfcFourShown[hdfcLine[1]]
          IN  /\ hdfcState.closing =
                    (IF closing # None THEN closing ELSE hdfcBefore.closing)
              /\ <<hdfcState.opening, hdfcState.earned, hdfcState.redeemed,
                   hdfcState.adjusted>> =
                    (IF four # None
                     THEN <<Some(four[1][1]), Some(four[1][2]), Some(four[1][3]),
                            Some(four[1][4])>>
                     ELSE <<hdfcBefore.opening, hdfcBefore.earned,
                            hdfcBefore.redeemed, hdfcBefore.adjusted>>)
    /\ hdfcPc = "done" =>
          /\ Len(hdfcRewardSummaries) <= 1
          /\ Len(hdfcRewardSummaries) = 1 <=>
                /\ hdfcState.closing # None /\ hdfcState.opening # None
                /\ hdfcState.earned # None /\ hdfcState.redeemed # None
                /\ hdfcState.adjusted # None
          /\ \A i \in 1..Len(hdfcRewardSummaries) :
                LET s == hdfcRewardSummaries[i]
                IN  /\ s.openingBalance = hdfcState.opening
                    /\ s.earned = hdfcState.earned
                    /\ s.redeemed = hdfcState.redeemed
                    /\ s.adjustedLapsed = hdfcState.adjusted
                    /\ s.closingBalance = hdfcState.closing
                    /\ s.cardHolderName =
                          (IF hdfcState.primaryCardHolder = None
                           THEN Some(TextPrimaryCardholder)
                           ELSE hdfcState.primaryCardHolder)
C23_Witness ==
    /\ hdfcPc = "done" /\ Len(hdfcRewardSummaries) = 1
    /\ hdfcRewardSummaries[1].cardHolderName = Some(TextPrimaryCardholder)
    /\ hdfcRewardSummaries[1].openingBalance = Some(1100)
    /\ hdfcRewardSummaries[1].redeemed = Some(1000)
    /\ hdfcRewardSummaries[1].closingBalance = Some(120)

\* ---- sbiParser.parse: the reward line on both paths

\* the reward lines of five tokens n1 .. n5 and the numbers they show, "NONE"
\* shown as 0
SbiRewardReadings ==
    {[line |-> SbiLineRewards, n |-> <<1968, 158, 2000, 126, 0>>, sentinel |-> FALSE],
     [line |-> SbiLineRewardsNone, n |-> <<1968, 158, 2000, 126, 0>>, sentinel |-> TRUE]}

\* C24: a line of five tokens n1 n2 n3 n4 n5, n5 an integer or "NONE", is
\* recognised on both paths: the parser's own block records opening n1,
\* earned n2, redeemed n3, closing n4, lapsed n5, and the helper records
\* openingBalance n1, earned n2, redeemed n3, adjustedLapsed n4,
\* closingBalance n5 with "NONE" read as 0 (the helper is looked at on the
\* first page, where every line read so far is one of its lines)
C24_BothPathsReadRewardLine ==
    \A r \in SbiRewardReadings :
        sbiLine = Some(r.line) =>
            /\ sbiReward # None
            /\ sbiReward[1].opening = r.n[1] /\ sbiReward[1].earned = r.n[2]
            /\ sbiReward[1].redeemed = r.n[3] /\ sbiReward[1].closing = r.n[4]
            /\ ~r.sentinel => sbiReward[1].lapsed = r.n[5]
            /\ (sbiInPage /\ sbiPageNum = 1) =>
                sbiPageRewards =
                  Some([openingBalance |-> r.n[1], earned |-> r.n[2],
                        redeemed |-> r.n[3], adjustedLapsed |-> r.n[4],
                        closingBalance |-> r.n[5]])

\* C25: one parse of an SBI statement gives one import identifier: every
\* transaction returned, and the parser's own reward summary, carries the
\* hash of the file's base name joined to the statement's period, wherever
\* the period line stands among the rows
C25_OneImportIdPerStatement ==
    (sbiPc = "done" /\ sbiStatementDate # None) =>
        /\ \A i \in 1..Len(sbiTransactions) :
              sbiTransactions[i].importId
                  = Some(GenerateImportId(TextSbiFile, sbiStatementDate))
        /\ \A i \in 1..Len(sbiRewardSummaries) :
              "md5" \in DOMAIN sbiRewardSummaries[i].importId =>
                  sbiRewardSummaries[i].importId
                      = GenerateImportId(TextSbiFile, sbiStatementDate)

\* ---- iciciParser.parse: the card a transaction belongs to

\* the sample lines that are masked card numbers
IciciCardLines == {IciciLineCard, IciciLineCardOther}

\* C26: every ICICI transaction carries the card-number line read last before
\* it; a card-number line becomes the current card and adds no transaction,
\* any other line leaves the current card as it is; the reward summaries
\* returned are the empty list
C26_CardContext ==
    /\ iciciLine # None =>
          /\ IF iciciLine[1] \in IciciCardLines
             THEN /\ iciciCurrentCardNumber = Some(iciciLine[1])
                  /\ Len(iciciTransactions) = iciciEmittedBefore
             ELSE iciciCurrentCardNumber = iciciCardBefore
          /\ Len(iciciTransactions) > iciciEmittedBefore =>
                /\ iciciCardBefore # None
                /\ iciciTransactions[Len(iciciTransactions)].cardNumber
                      = iciciCardBefore
    /\ \A i \in 1..Len(iciciTransactions) :
          \E c \in IciciCardLines : iciciTransactions[i].cardNumber = Some(c)
    /\ iciciPc = "done" => IciciRewardSummaries = <<>>
C26_Witness ==
    /\ iciciCount = 3
    /\ iciciLine = Some(IciciLineRow)
    /\ iciciCardBefore = Some(IciciLineCardOther)
    /\ iciciEmittedBefore = 0
    /\ Len(iciciTransactions) = 1
    /\ iciciTransactions[1].cardNumber = Some(IciciLineCardOther)

\* ---- auParser.parse: records of three lines, the header line, the rewards
AuRecordFields == {"description", "amount", "date", "type"}

\* C27: no transaction is emitted before "Your Transactions"; after it a
\* transaction is emitted only by a date line that closes a record whose
\* description line and amount line were both seen, so every transaction
\* emitted has description, amount, date and type
C27_EmittedRecordsAreComplete ==
    /\ ~auState.in_txn => auState.transactions = <<>>
    /\ \A i \in 1..Len(auState.transactions) :
          \A f \in AuRecordFields : auState.transactions[i][f] # None
TextAuCard == <<"1", "2", "3", "4">>
TextAuDate == <<"1", "2", " ", "A", "u", "g", " ", "2", "0", "2", "5">>

\* C28: the line "Statement for your credit card ending with (1234) 12 Aug
\* 2025" gives the card number 1234, the token after "ending with" without
\* its parentheses, and the statement date "12 Aug 2025", its last three
\* tokens; the reward summary carries this card number
C28_HeaderGivesCardAndDate ==
    /\ (auLine = Some(AuLineStatementFull) /\ ~auState.raised) =>
          /\ auState.cardNumber = Some(TextAuCard)
          /\ auState.statementDate = Some(TextAuDate)
    /\ auPc = "done" =>
          \A i \in 1..Len(auRewardSummaries) :
              auRewardSummaries[i].cardNumber = auState.cardNumber

\* C29: the AU parser returns a reward summary exactly when a "Total reward
\* points" line with a number was found inside the rewards block, and the
\* summary's earned is the "Earned +" value plus the "Bonus Points" value,
\* an absent label counting as 0
C29_EarnedIsEarnedPlusBonus ==
    auPc = "done" =>
        /\ Len(auRewardSummaries) = 1 <=> auRewards.closingBalance # None
        /\ \A i \in 1..Len(auRewardSummaries) :
              auRewardSummaries[i].earned = Some(auRewards.earned + auRewards.bonus)

====
